---- MODULE Spec2Model ----
(***************************************************************************)
(* Multi-agent debugger: the orchestrator session (debug_code) that        *)
(* sequences the Scanner (Detect), Fixer (Repair) and Validator (Verify)   *)
(* agents, with the bounded fix/validate retry loop.                       *)
(*                                                                         *)
(* Python text is a sequence of one-character strings.  A value parsed     *)
(* from a backend response (a JSON value) is a record tagged by `kind`.    *)
(***************************************************************************)
EXTENDS Integers, Sequences, FiniteSets, TLC

\* ------------------------------------------------------------------------
\* Bounds and program constants
\* ------------------------------------------------------------------------

\* Longest input text handed to debug_code.
MaxCodeLen == 2

\* config.py: how many times the fix/validate loop runs.
MAX_FIX_RETRIES == 3

\* Characters of the input texts: blank, line break, one visible character.
CodeAlphabet == {" ", "\n", "a"}

\* Every input text of at most MaxCodeLen characters.
Codes == UNION {[1..n -> CodeAlphabet] : n \in 0..MaxCodeLen}

\* ------------------------------------------------------------------------
\* JSON values (what json.loads yields inside a response record)
\* ------------------------------------------------------------------------

JNull == [kind |-> "null"]
JNum(n) == [kind |-> "num", num |-> n]
JStr(s) == [kind |-> "str", str |-> s]
JList(xs) == [kind |-> "list", items |-> xs]
JDict(f) == [kind |-> "dict", fields |-> f]

\* Python truth value of a parsed value (`not x` is its negation).
Truthy(v) ==
  CASE v.kind = "null" -> FALSE
    [] v.kind = "num" -> v.num # 0
    [] v.kind = "str" -> v.str # <<>>
    [] v.kind = "list" -> v.items # <<>>
    [] v.kind = "dict" -> DOMAIN v.fields # {}

\* len(x) is defined for text, lists and dicts; it raises TypeError otherwise.
HasLen(v) == v.kind \in {"str", "list", "dict"}

\* ------------------------------------------------------------------------
\* Text helpers: str.strip, str.lower, textwrap.dedent
\* ------------------------------------------------------------------------

IsSpace(c) == c \in {" ", "\n", "\t"}

RECURSIVE LStrip(_)
LStrip(s) == IF s # <<>> /\ IsSpace(Head(s)) THEN LStrip(Tail(s)) ELSE s

RECURSIVE RStrip(_)
RStrip(s) ==
  IF s # <<>> /\ IsSpace(s[Len(s)]) THEN RStrip(SubSeq(s, 1, Len(s) - 1)) ELSE s

\* str.strip(): drop leading and trailing whitespace.
Strip(s) == RStrip(LStrip(s))

UpperLetters ==
  <<"A", "B", "C", "D", "E", "F", "G", "H", "I", "J", "K", "L", "M",
    "N", "O", "P", "Q", "R", "S", "T", "U", "V", "W", "X", "Y", "Z">>
LowerLetters ==
  <<"a", "b", "c", "d", "e", "f", "g", "h", "i", "j", "k", "l", "m",
    "n", "o", "p", "q", "r", "s", "t", "u", "v", "w", "x", "y", "z">>

LowerChar(c) ==
  IF \E i \in 1..Len(UpperLetters) : UpperLetters[i] = c
  THEN LowerLetters[CHOOSE i \in 1..Len(UpperLetters) : UpperLetters[i] = c]
  ELSE c

\* str.lower(): character by character.
Lower(s) == [i \in 1..Len(s) |-> LowerChar(s[i])]

\* text.split("\n")
RECURSIVE SplitLines(_)
SplitLines(s) ==
  IF \E i \in 1..Len(s) : s[i] = "\n"
  THEN LET k == CHOOSE i \in 1..Len(s) :
                  s[i] = "\n" /\ \A j \in 1..(i - 1) : s[j] # "\n"
       IN <<SubSeq(s, 1, k - 1)>> \o SplitLines(SubSeq(s, k + 1, Len(s)))
  ELSE <<s>>

\* "\n".join(lines)
RECURSIVE JoinLines(_)
JoinLines(ls) ==
  IF Len(ls) = 0 THEN <<>>
  ELSE IF Len(ls) = 1 THEN ls[1]
  ELSE ls[1] \o <<"\n">> \o JoinLines(Tail(ls))

IsBlank(c) == c \in {" ", "\t"}

\* Leading run of blanks and tabs of one line.
RECURSIVE LeadingBlanks(_)
LeadingBlanks(l) ==
  IF l # <<>> /\ IsBlank(Head(l)) THEN <<Head(l)>> \o LeadingBlanks(Tail(l))
  ELSE <<>>

\* A line made of blanks and tabs only (and at least one of them).
WhitespaceOnly(l) == l # <<>> /\ \A i \in 1..Len(l) : IsBlank(l[i])

\* Longest common prefix of two indents (the three cases of dedent's loop).
RECURSIVE CommonPrefix(_, _)
CommonPrefix(a, b) ==
  IF a # <<>> /\ b # <<>> /\ Head(a) = Head(b)
  THEN <<Head(a)>> \o CommonPrefix(Tail(a), Tail(b))
  ELSE <<>>

RECURSIVE MarginOf(_, _)
MarginOf(indents, margin) ==
  IF indents = <<>> THEN margin
  ELSE MarginOf(Tail(indents), CommonPrefix(margin, Head(indents)))

IsPrefix(p, l) == Len(p) <= Len(l) /\ SubSeq(l, 1, Len(p)) = p

\* textwrap.dedent: blank-only lines become empty, then the common leading
\* whitespace of the lines that have content is removed from every line.
Dedent(s) ==
  LET raw == SplitLines(s)
      ls == [i \in 1..Len(raw) |-> IF WhitespaceOnly(raw[i]) THEN <<>> ELSE raw[i]]
      content == SelectSeq(ls, LAMBDA l : l # <<>>)
      indents == [i \in 1..Len(content) |-> LeadingBlanks(content[i])]
      margin == IF indents = <<>> THEN <<>>
                ELSE MarginOf(Tail(indents), Head(indents))
      cut == [i \in 1..Len(ls) |->
                IF margin # <<>> /\ IsPrefix(margin, ls[i])
                THEN SubSeq(ls[i], Len(margin) + 1, Len(ls[i]))
                ELSE ls[i]]
  IN JoinLines(cut)

\* orchestrator.normalize_code
normalize_code(code) == Strip(Dedent(code))

\* ------------------------------------------------------------------------
\* json.loads on a text.  A text is a sequence of symbols: one-character
\* strings, and words without structural characters kept as one symbol.
\* The result of a parse step is [ok, val, pos]: success, the value read and
\* the index after it.
\* ------------------------------------------------------------------------

ParseFail == [ok |-> FALSE, val |-> JNull, pos |-> 0]
Parsed(v, p) == [ok |-> TRUE, val |-> v, pos |-> p]

IsJsonWs(c) == c \in {" ", "\n", "\t", "\r"}

Digits == {"0", "1", "2", "3", "4", "5", "6", "7", "8", "9"}

DigitValue(c) ==
  CASE c = "0" -> 0 [] c = "1" -> 1 [] c = "2" -> 2 [] c = "3" -> 3 [] c = "4" -> 4
    [] c = "5" -> 5 [] c = "6" -> 6 [] c = "7" -> 7 [] c = "8" -> 8 [] c = "9" -> 9

\* Index of the first symbol at or after i that is not JSON whitespace.
RECURSIVE SkipWs(_, _)
SkipWs(s, i) == IF i <= Len(s) /\ IsJsonWs(s[i]) THEN SkipWs(s, i + 1) ELSE i

\* The character an escape sequence stands for, or "invalid".
Unescape(c) ==
  CASE c = "\"" -> "\""
    [] c = "\\" -> "\\"
    [] c = "/" -> "/"
    [] c = "n" -> "\n"
    [] c = "t" -> "\t"
    [] c = "r" -> "\r"
    [] OTHER -> "invalid"

\* One character (or escape sequence) of a string literal read at st.i.
StringStep(s, st) ==
  IF s[st.i] = "\\" THEN
    IF st.i + 1 > Len(s) \/ Unescape(s[st.i + 1]) = "invalid"
    THEN [st EXCEPT !.bad = TRUE]
    ELSE [st EXCEPT !.i = st.i + 2, !.acc = Append(st.acc, Unescape(s[st.i + 1]))]
  ELSE IF s[st.i] \in {"\n", "\t", "\r"} THEN [st EXCEPT !.bad = TRUE]
  ELSE [st EXCEPT !.i = st.i + 1, !.acc = Append(st.acc, s[st.i])]

RECURSIVE StringLoop(_, _)
StringLoop(s, st) ==
  IF st.bad \/ st.i > Len(s) \/ s[st.i] = "\"" THEN st
  ELSE StringLoop(s, StringStep(s, st))

\* The body of a string literal from index i (after the opening quote), up
\* to its closing quote.
ParseStringBody(s, i, acc) ==
  LET st == StringLoop(s, [i |-> i, acc |-> acc, bad |-> FALSE])
  IN IF st.bad \/ st.i > Len(s) THEN ParseFail
     ELSE Parsed(JStr(st.acc), st.i + 1)

RECURSIVE ParseDigits(_, _, _)
ParseDigits(s, i, n) ==
  IF i <= Len(s) /\ s[i] \in Digits
  THEN ParseDigits(s, i + 1, 10 * n + DigitValue(s[i]))
  ELSE Parsed(JNum(n), i)

\* An integer literal; a leading zero may not be followed by a digit.
ParseNumber(s, i) ==
  IF s[i] = "0" /\ i + 1 <= Len(s) /\ s[i + 1] \in Digits THEN ParseFail
  ELSE ParseDigits(s, i, 0)

\* The name of a key: its symbols joined into one string.
RECURSIVE KeyName(_)
KeyName(syms) == IF syms = <<>> THEN "" ELSE Head(syms) \o KeyName(Tail(syms))

\* d[k] = v added to the dict under construction (a later key wins).
PutField(d, k, v) ==
  [x \in (DOMAIN d) \cup {k} |-> IF x = k THEN v ELSE d[x]]

EmptyFields == [x \in {} |-> JNull]

RECURSIVE ParseValue(_, _)
RECURSIVE ParseMembers(_, _, _)
RECURSIVE ParseElements(_, _, _)

\* "key": value pairs from index i up to the closing brace.
ParseMembers(s, i, d) ==
  IF i > Len(s) \/ s[i] # "\"" THEN ParseFail
  ELSE
    LET key == ParseStringBody(s, i + 1, <<>>)
    IN IF ~key.ok THEN ParseFail
       ELSE
         LET c == SkipWs(s, key.pos)
         IN IF c > Len(s) \/ s[c] # ":" THEN ParseFail
            ELSE
              LET v == ParseValue(s, c + 1)
              IN IF ~v.ok THEN ParseFail
                 ELSE
                   LET e == SkipWs(s, v.pos)
                       d2 == PutField(d, KeyName(key.val.str), v.val)
                   IN IF e > Len(s) THEN ParseFail
                      ELSE IF s[e] = "}" THEN Parsed(JDict(d2), e + 1)
                      ELSE IF s[e] = "," THEN ParseMembers(s, SkipWs(s, e + 1), d2)
                      ELSE ParseFail

\* Values from index i up to the closing bracket.
ParseElements(s, i, xs) ==
  LET v == ParseValue(s, i)
  IN IF ~v.ok THEN ParseFail
     ELSE
       LET e == SkipWs(s, v.pos)
       IN IF e > Len(s) THEN ParseFail
          ELSE IF s[e] = "]" THEN Parsed(JList(Append(xs, v.val)), e + 1)
          ELSE IF s[e] = "," THEN ParseElements(s, e + 1, Append(xs, v.val))
          ELSE ParseFail

\* One JSON value starting at or after index i.
ParseValue(s, i) ==
  LET j == SkipWs(s, i)
  IN IF j > Len(s) THEN ParseFail
     ELSE IF s[j] = "{" THEN
       LET k == SkipWs(s, j + 1)
       IN IF k <= Len(s) /\ s[k] = "}" THEN Parsed(JDict(EmptyFields), k + 1)
          ELSE ParseMembers(s, k, EmptyFields)
     ELSE IF s[j] = "[" THEN
       LET k == SkipWs(s, j + 1)
       IN IF k <= Len(s) /\ s[k] = "]" THEN Parsed(JList(<<>>), k + 1)
          ELSE ParseElements(s, k, <<>>)
     ELSE IF s[j] = "\"" THEN ParseStringBody(s, j + 1, <<>>)
     ELSE IF s[j] = "null" THEN Parsed(JNull, j + 1)
     ELSE IF s[j] \in Digits THEN ParseNumber(s, j)
     ELSE ParseFail

\* json.loads(text): the whole text is one value; JSONDecodeError otherwise.
json_loads(text) ==
  LET v == ParseValue(text, 1)
  IN IF v.ok /\ SkipWs(text, v.pos) = Len(text) + 1 THEN v ELSE ParseFail

\* ------------------------------------------------------------------------
\* llm_client.extract_json
\* ------------------------------------------------------------------------

\* The first re.sub of extract_json: every code fence (three backticks, the
\* symbol Fence) goes, with a "json" tag right after it and the whitespace
\* that follows.  The second re.sub finds no fence left.
Fence == "<fence>"

\* The pattern read symbol by symbol: st.after is "fence" right behind a
\* fence (where the tag may stand), "space" in the whitespace that follows,
\* and "text" elsewhere; st.out collects what is kept.
FenceStep(s, st) ==
  LET ch == s[st.i]
      dropped == \/ ch = Fence
                 \/ st.after = "fence" /\ ch \in {"json", "JSON"}
                 \/ st.after \in {"fence", "space"} /\ (IsSpace(ch) \/ ch = "\r")
  IN [ i |-> st.i + 1,
       after |-> IF ch = Fence THEN "fence" ELSE IF dropped THEN "space" ELSE "text",
       out |-> IF dropped THEN st.out ELSE Append(st.out, ch) ]

RECURSIVE FenceLoop(_, _)
FenceLoop(s, st) == IF st.i > Len(s) THEN st ELSE FenceLoop(s, FenceStep(s, st))

StripFences(s) == FenceLoop(s, [i |-> 1, after |-> "text", out |-> <<>>]).out

ExtractRaise == [ok |-> FALSE, str |-> <<>>]
Extracted(str) == [ok |-> TRUE, str |-> str]

\* Faulty variant: the candidate is returned without being parsed.
ValidCandidate_Unchecked(json_str) == TRUE

\* try: json.loads(json_str)
ValidCandidate(json_str) == json_loads(json_str).ok

\* The state of the scanning loop: i is the index read, depth the size of
\* the stack, start the index of the brace that opened the current
\* candidate, found whether the brace just read emptied the stack.
ScanStart(i, start) ==
  [ i |-> i, depth |-> 0, start |-> start, in_string |-> FALSE,
    escape_next |-> FALSE, found |-> FALSE ]

\* One iteration of the loop on the character ch.
ScanStep(st, ch) ==
  IF st.escape_next THEN [st EXCEPT !.escape_next = FALSE]
  ELSE IF ch = "\\" /\ st.in_string THEN [st EXCEPT !.escape_next = TRUE]
  ELSE IF ch = "\"" THEN [st EXCEPT !.in_string = ~st.in_string]
  ELSE IF st.in_string THEN st
  ELSE IF ch = "{" THEN
    [st EXCEPT !.depth = st.depth + 1,
               !.start = IF st.depth = 0 THEN st.i ELSE st.start]
  ELSE IF ch = "}" /\ st.depth > 0 THEN
    [st EXCEPT !.depth = st.depth - 1,
               !.found = st.depth = 1 /\ st.start # 0]
  ELSE st

\* The loop up to the next brace that empties the stack, or to the end.
RECURSIVE NextCandidate(_, _)
NextCandidate(text, st) ==
  IF st.i > Len(text) \/ st.found THEN st
  ELSE NextCandidate(text, [ScanStep(st, text[st.i]) EXCEPT !.i = st.i + 1])

\* The scanning loop from index i with an empty stack: a candidate that does
\* not parse is skipped and the loop goes on after it.
RECURSIVE ExtractScan(_, _, _)
ExtractScan(text, i, start) ==
  LET c == NextCandidate(text, ScanStart(i, start))
  IN IF ~c.found THEN ExtractRaise
     ELSE IF ValidCandidate(SubSeq(text, c.start, c.i - 1))
       THEN Extracted(SubSeq(text, c.start, c.i - 1))
     ELSE ExtractScan(text, c.i, c.start)

\* extract_json(text): the first balanced candidate that parses, or
\* ValueError.
extract_json(text) == ExtractScan(StripFences(text), 1, 0)

\* ------------------------------------------------------------------------
\* extract_json of the superseded client (src/MultiAgentic_Debugger)
\* ------------------------------------------------------------------------

\* re.sub(r"(three backticks)json|(three backticks)", "", text, IGNORECASE):
\* the fences go, with a "json" tag right after them; whitespace stays.
RECURSIVE GreedyStripFences(_)
GreedyStripFences(s) ==
  IF s = <<>> THEN <<>>
  ELSE IF Head(s) = Fence
    THEN IF Len(s) > 1 /\ s[2] \in {"json", "JSON"}
         THEN GreedyStripFences(SubSeq(s, 3, Len(s)))
         ELSE GreedyStripFences(Tail(s))
  ELSE <<Head(s)>> \o GreedyStripFences(Tail(s))

\* re.search(r"\{.*\}", text, re.DOTALL): from the first opening brace to
\* the last closing brace, if that one comes later.
GreedyMatch(text) ==
  LET opens == { i \in 1..Len(text) : text[i] = "{" }
      closes == { i \in 1..Len(text) : text[i] = "}" }
      first == CHOOSE i \in opens : \A j \in opens : i <= j
      last == CHOOSE i \in closes : \A j \in closes : j <= i
  IN IF opens = {} \/ closes = {} THEN [ok |-> FALSE, str |-> <<>>]
     ELSE IF last < first THEN [ok |-> FALSE, str |-> <<>>]
     ELSE [ok |-> TRUE, str |-> SubSeq(text, first, last)]

\* The superseded extract_json(text): the parsed match, or an exception
\* (ValueError without a match, JSONDecodeError from json.loads).
greedy_extract_json(text) ==
  LET match == GreedyMatch(Strip(GreedyStripFences(text)))
  IN IF ~match.ok THEN ParseFail ELSE json_loads(match.str)

\* ------------------------------------------------------------------------
\* Backend answers the session can meet (inputs of the agent invocations)
\* ------------------------------------------------------------------------

\* {"type": "Syntax", "line": 1, "description": "..."}: a well-formed entry.
SyntaxErrorLine1 ==
  JDict([type |-> JStr(<<"S">>), line |-> JNum(1), description |-> JStr(<<"d">>)])

\* An entry without a description.
EntryWithoutDescription == JDict([type |-> JStr(<<"S">>), line |-> JNum(1)])

\* Values the Detect record may carry under "errors": the empty list, a list
\* with one well-formed entry, a list with a malformed entry, and values that
\* are not lists (null, a text, a number).
ErrorsValues ==
  { JList(<<>>),
    JList(<<SyntaxErrorLine1>>),
    JList(<<EntryWithoutDescription>>),
    JNull,
    JStr(<<"x">>),
    JNum(1) }

\* Values the Repair record may carry under "fixed_code": a text that is
\* already normalized, an indented text with a trailing line break, a
\* whitespace-only text, and a value that is not text.
FixedCodeValues ==
  { JStr(<<"a", "\n", " ", "b">>),
    JStr(<<" ", " ", "a", "\n", " ", " ", " ", "b", "\n">>),
    JStr(<<" ", "\n">>),
    JNum(7) }

ExplanationValues == { JStr(<<"e">>) }

Approved == <<"A", "p", "p", "r", "o", "v", "e", "d">>
approved == <<"a", "p", "p", "r", "o", "v", "e", "d">>
APPROVED == <<"A", "P", "P", "R", "O", "V", "E", "D">>
Rejected == <<"R", "e", "j", "e", "c", "t", "e", "d">>

\* Values the Verify record may carry under "status" and "feedback".
StatusValues == { JStr(Approved), JStr(approved), JStr(APPROVED), JStr(Rejected), JNull }

FeedbackValues == { JStr(<<"f", "1">>), JStr(<<"f", "2">>) }

\* ------------------------------------------------------------------------
\* Agent preconditions (agents.py): the exception raised before the backend
\* is called, or "none".
\* ------------------------------------------------------------------------

\* Faulty variant: the emptiness test without the strip.
EmptyCode_NoStrip(code) == code = <<>>

\* `not code or not code.strip()`
EmptyCode(code) == code = <<>> \/ Strip(code) = <<>>

\* scanner_agent
ScannerPrecondition(code) == IF EmptyCode(code) THEN "ValueError" ELSE "none"

\* An entry of the error list the fixer accepts.
ValidErrorEntry(err) ==
  err.kind = "dict" /\ {"type", "description"} \subseteq DOMAIN err.fields

\* `not errors or not isinstance(errors, list)`
BadErrorList(errors) == ~Truthy(errors) \/ errors.kind # "list"

\* fixer_agent
FixerPrecondition(code, errors) ==
  IF EmptyCode(code) THEN "ValueError"
  ELSE IF BadErrorList(errors) THEN "ValueError"
  ELSE IF \E i \in 1..Len(errors.items) : ~ValidErrorEntry(errors.items[i])
       THEN "ValueError"
  ELSE "none"

\* validator_agent; `fixed.strip()` on a value that is not text raises
\* AttributeError.
ValidatorPrecondition(original, fixed, errors) ==
  IF EmptyCode(original) THEN "ValueError"
  ELSE IF ~Truthy(fixed) THEN "ValueError"
  ELSE IF fixed.kind # "str" THEN "AttributeError"
  ELSE IF Strip(fixed.str) = <<>> THEN "ValueError"
  ELSE IF BadErrorList(errors) THEN "ValueError"
  ELSE "none"

\* ------------------------------------------------------------------------
\* The session (orchestrator.debug_code)
\* ------------------------------------------------------------------------

VARIABLES
  code,              \* the argument of debug_code
  state,             \* the `state` dict of the session
  pc,                \* where the session stands
  attempt_num,       \* the loop variable of the fix/validate loop
  fix_result,        \* last record returned by fixer_agent
  validation_result, \* last record returned by validator_agent
  raised,            \* the exception that left debug_code, or "none"
  calls              \* history of the agent invocations of the session

sessionVars ==
  <<code, state, pc, attempt_num, fix_result, validation_result, raised, calls>>

\* The gateway (llm_client.py): configuration, module-level state, the
\* position and locals of the call in progress, and a record of what the
\* gateway did to its backends.
VARIABLES
  LLM_PROVIDER,        \* config: "gemini", "ollama" or "mock"
  GOOGLE_API_KEY,      \* config: TRUE when a key is configured
  GEMINI_INITIALIZED,  \* _GEMINI_INITIALIZED
  model_instance,      \* the model the client object is bound to, or "None"
  current_model_name,  \* _current_model_name
  current_provider,    \* _current_provider
  gpc,                 \* where the gateway call stands
  attempt,             \* loop variable of call_gemini
  retry_delay,         \* retry_delay of call_gemini
  fallback_index,      \* position of try_fallback_models in FALLBACK_MODELS
  gateway_result,      \* what the last call_llm returned
  ncalls,              \* number of call_llm calls started
  prompt,              \* argument of the call_llm call in progress
  last_op,             \* the backend operation the last step performed
  selected,            \* the model selected for the session, or "None"
  tried,               \* the models that failed a probe or were unavailable
  history              \* counts of the backend operations of the current call

gatewayVars ==
  <<LLM_PROVIDER, GOOGLE_API_KEY, GEMINI_INITIALIZED, model_instance,
    current_model_name, current_provider, gpc, attempt, retry_delay,
    fallback_index, gateway_result, ncalls, prompt, last_op, selected, tried,
    history>>

\* One function of the client or of the agents applied to given arguments,
\* and what came out of it.
VARIABLE run

\* The call_llm calls running at the same time on the module state: one
\* frame of call_gemini's locals per caller, and what their backend
\* operations have met so far.
VARIABLE callers

vars == <<sessionVars, gatewayVars, run, callers>>

\* What a session leaves alone.
outsideSession == <<gatewayVars, run, callers>>

\* No backend operation; no answer returned yet.
NoOp == [op |-> "none"]

\* A call in which no backend operation has been issued: the requests to
\* the local server, whether the hosted backend was used (client built,
\* probe or invocation), the invocations of the selected model, those that
\* failed with a network or server error, and the sleeps taken.
NoHistory ==
  [ollama |-> 0, hosted |-> FALSE, generate |-> 0, retryable |-> 0, sleeps |-> 0]
NoAnswer == [from |-> "none", text |-> <<>>]

\* The gateway and the function harness at rest (used by the specifications
\* that do not exercise them).
GatewayAtRest ==
  /\ LLM_PROVIDER = "mock"
  /\ GOOGLE_API_KEY = FALSE
  /\ GEMINI_INITIALIZED = FALSE
  /\ model_instance = "None"
  /\ current_model_name = "mock"
  /\ current_provider = "mock"
  /\ gpc = "idle"
  /\ attempt = 0
  /\ retry_delay = 0
  /\ fallback_index = 0
  /\ gateway_result = NoAnswer
  /\ ncalls = 0
  /\ prompt = <<>>
  /\ last_op = NoOp
  /\ selected = "None"
  /\ tried = {}
  /\ history = NoHistory

NoRun == [fn |-> "none"]

RunAtRest == run = NoRun

NumCallers == 2
Callers == 1..NumCallers

\* The frame of a caller that is not inside call_llm.
IdleFrame == [pc |-> "idle", attempt |-> 0, fallback_index |-> 0]

\* No caller inside call_llm, and nothing met by their backend operations.
NoCallers ==
  [ frame |-> [c \in Callers |-> IdleFrame],
    reselects |-> FALSE,
    contested |-> FALSE,
    failed |-> "None" ]

CallersAtRest == callers = NoCallers

\* The state dict built at the start of the session.
InitialState(c) ==
  [ original_code |-> c,
    detected_errors |-> JList(<<>>),
    fix_attempts |-> <<>>,
    final_code |-> JNull,
    status |-> "IN_PROGRESS" ]

\* Faulty variant: a failed scan hands the input back as the final code.
ScanFailed_ReturnsInput(st) ==
  [st EXCEPT !.status = "FAILED", !.final_code = JStr(st.original_code)]

\* except-branch of the scan: the session fails.
ScanFailed(st) == [st EXCEPT !.status = "FAILED"]

\* `if not state["detected_errors"]`
NoErrorsDetected(st) == ~Truthy(st.detected_errors)

\* state["status"] = "NO_ERRORS"
NoErrorsStatus(st) == [st EXCEPT !.status = "NO_ERRORS"]

\* Faulty variant: the untouched input is normalized before it is returned.
NoErrorsFinal_Normalized(st, c) == [st EXCEPT !.final_code = JStr(normalize_code(c))]

\* state["final_code"] = code
NoErrorsFinal(st, c) == [st EXCEPT !.final_code = JStr(c)]

\* Faulty variant: the loop runs once more than the configured bound.
LoopContinues_OffByOne(n) == n <= MAX_FIX_RETRIES

\* `for attempt_num in range(MAX_FIX_RETRIES)`: is there an n-th iteration
\* (n counted from 0)?
LoopContinues(n) == n < MAX_FIX_RETRIES

\* Faulty variant: the attempt is inserted at the front of the list.
RecordAttempt_AtFront(st, n, fix, val) ==
  [st EXCEPT !.fix_attempts =
     <<[ attempt |-> n + 1,
         fixed_code |-> fix.fixed_code,
         explanation |-> fix.explanation,
         validation |-> val ]>> \o @]

\* state["fix_attempts"].append({...})
RecordAttempt(st, n, fix, val) ==
  [st EXCEPT !.fix_attempts =
     Append(@, [ attempt |-> n + 1,
                 fixed_code |-> fix.fixed_code,
                 explanation |-> fix.explanation,
                 validation |-> val ])]

\* Faulty variant: the exact comparison of the superseded orchestrator.
IsApproved_CaseSensitive(val) == val.status.str = Approved

\* validation_result.get("status", "").lower() == "approved", for a status
\* that is text.
IsApproved(val) == Lower(val.status.str) = approved

\* Faulty variant: the Repair text is stored as it came.
FixedFinal_Raw(st, fix) == [st EXCEPT !.final_code = fix.fixed_code]

\* state["final_code"] = normalize_code(fix_result["fixed_code"])
FixedFinal(st, fix) == [st EXCEPT !.final_code = JStr(normalize_code(fix.fixed_code.str))]

\* Faulty variant: the status is left as it was.
FixedStatus_Unset(st) == st

\* state["status"] = "FIXED"
FixedStatus(st) == [st EXCEPT !.status = "FIXED"]

\* Faulty variant: the exhausted session hands the input back as final code.
Exhausted_ReturnsInput(st) ==
  [st EXCEPT !.status = "FAILED", !.final_code = JStr(st.original_code)]

\* All attempts used up: state["status"] = "FAILED"
Exhausted(st) == [st EXCEPT !.status = "FAILED"]

\* One entry of the invocation history.  `llm` tells whether the invocation
\* reached safe_llm_json_call; `exc` is the exception it ended with.
Call(agent, c, errors, fixed, llm, exc, result) ==
  [ agent |-> agent, code |-> c, errors |-> errors, fixed |-> fixed,
    llm |-> llm, exc |-> exc, result |-> result ]

NoResult == JNull

Init ==
  /\ code \in Codes
  /\ state = InitialState(code)
  /\ pc = "scan"
  /\ attempt_num = 0
  /\ fix_result = NoResult
  /\ validation_result = NoResult
  /\ raised = "none"
  /\ calls = <<>>
  /\ GatewayAtRest
  /\ RunAtRest
  /\ CallersAtRest

\* --- Scanning -----------------------------------------------------------

\* scanner_agent rejects the input before any backend call; debug_code
\* catches the exception and returns the failed state.
ScanInvalidInput ==
  /\ pc = "scan"
  /\ ScannerPrecondition(code) # "none"
  /\ calls' = Append(calls, Call("Detect", code, JNull, JNull, FALSE,
                                 ScannerPrecondition(code), NoResult))
  /\ state' = ScanFailed(state)
  /\ pc' = "done"
  /\ UNCHANGED <<code, attempt_num, fix_result, validation_result, raised>>
  /\ UNCHANGED outsideSession

\* safe_llm_json_call raises (no record in the answer, or "errors" missing).
ScanCallFails ==
  /\ pc = "scan"
  /\ ScannerPrecondition(code) = "none"
  /\ calls' = Append(calls, Call("Detect", code, JNull, JNull, TRUE,
                                 "ValueError", NoResult))
  /\ state' = ScanFailed(state)
  /\ pc' = "done"
  /\ UNCHANGED <<code, attempt_num, fix_result, validation_result, raised>>
  /\ UNCHANGED outsideSession

\* scanner_agent returns a record; its "errors" value is stored.
ScanReturns ==
  /\ pc = "scan"
  /\ ScannerPrecondition(code) = "none"
  /\ \E errors \in ErrorsValues :
       /\ calls' = Append(calls, Call("Detect", code, JNull, JNull, TRUE, "none",
                                      JDict([errors |-> errors])))
       /\ state' = [state EXCEPT !.detected_errors = errors]
  /\ pc' = "scanned"
  /\ UNCHANGED <<code, attempt_num, fix_result, validation_result, raised>>
  /\ UNCHANGED outsideSession

\* `if not state["detected_errors"]`: status NO_ERRORS.
NoErrors ==
  /\ pc = "scanned"
  /\ NoErrorsDetected(state)
  /\ state' = NoErrorsStatus(state)
  /\ pc' = "no_errors"
  /\ UNCHANGED <<code, attempt_num, fix_result, validation_result, raised, calls>>
  /\ UNCHANGED outsideSession

\* final_code = code; return state.
NoErrorsReturn ==
  /\ pc = "no_errors"
  /\ state' = NoErrorsFinal(state, code)
  /\ pc' = "done"
  /\ UNCHANGED <<code, attempt_num, fix_result, validation_result, raised, calls>>
  /\ UNCHANGED outsideSession

\* print(f"Found {len(state['detected_errors'])} error(s)"), outside any try:
\* len of a value without a length raises TypeError out of debug_code.
CountErrorsRaises ==
  /\ pc = "scanned"
  /\ ~NoErrorsDetected(state)
  /\ ~HasLen(state.detected_errors)
  /\ raised' = "TypeError"
  /\ pc' = "raised"
  /\ UNCHANGED <<code, state, attempt_num, fix_result, validation_result, calls>>
  /\ UNCHANGED outsideSession

\* The error count is printed and the loop is entered.
EnterLoop ==
  /\ pc = "scanned"
  /\ ~NoErrorsDetected(state)
  /\ HasLen(state.detected_errors)
  /\ attempt_num' = 0
  /\ pc' = "fix"
  /\ UNCHANGED <<code, state, fix_result, validation_result, raised, calls>>
  /\ UNCHANGED outsideSession

\* --- Fix/validate loop --------------------------------------------------

\* The loop is over: status FAILED, return state.
LoopExit ==
  /\ pc = "fix"
  /\ ~LoopContinues(attempt_num)
  /\ state' = Exhausted(state)
  /\ pc' = "done"
  /\ UNCHANGED <<code, attempt_num, fix_result, validation_result, raised, calls>>
  /\ UNCHANGED outsideSession

\* fixer_agent rejects its inputs before any backend call; the exception is
\* caught and the loop continues.
RepairInvalidInput ==
  /\ pc = "fix"
  /\ LoopContinues(attempt_num)
  /\ FixerPrecondition(code, state.detected_errors) # "none"
  /\ calls' = Append(calls, Call("Repair", code, state.detected_errors, JNull, FALSE,
                                 FixerPrecondition(code, state.detected_errors),
                                 NoResult))
  /\ attempt_num' = attempt_num + 1
  /\ UNCHANGED <<code, state, pc, fix_result, validation_result, raised>>
  /\ UNCHANGED outsideSession

\* safe_llm_json_call raises inside fixer_agent; caught, the loop continues.
RepairCallFails ==
  /\ pc = "fix"
  /\ LoopContinues(attempt_num)
  /\ FixerPrecondition(code, state.detected_errors) = "none"
  /\ calls' = Append(calls, Call("Repair", code, state.detected_errors, JNull, TRUE,
                                 "ValueError", NoResult))
  /\ attempt_num' = attempt_num + 1
  /\ UNCHANGED <<code, state, pc, fix_result, validation_result, raised>>
  /\ UNCHANGED outsideSession

\* Faulty variant: from the second attempt on, Repair is given the code it
\* proposed last instead of the original code.
RepairReturns_OnLastFix ==
  /\ pc = "fix"
  /\ LoopContinues(attempt_num)
  /\ FixerPrecondition(code, state.detected_errors) = "none"
  /\ \E fc \in FixedCodeValues, ex \in ExplanationValues :
       LET rec == [fixed_code |-> fc, explanation |-> ex]
           given == IF fix_result # NoResult /\ fix_result.fixed_code.kind = "str"
                    THEN fix_result.fixed_code.str ELSE code
       IN /\ fix_result' = rec
          /\ calls' = Append(calls, Call("Repair", given, state.detected_errors, JNull,
                                         TRUE, "none", JDict(rec)))
  /\ pc' = "verify"
  /\ UNCHANGED <<code, state, attempt_num, validation_result, raised>>
  /\ UNCHANGED outsideSession

\* fixer_agent returns a record.
RepairReturns ==
  /\ pc = "fix"
  /\ LoopContinues(attempt_num)
  /\ FixerPrecondition(code, state.detected_errors) = "none"
  /\ \E fc \in FixedCodeValues, ex \in ExplanationValues :
       LET rec == [fixed_code |-> fc, explanation |-> ex]
       IN /\ fix_result' = rec
          /\ calls' = Append(calls, Call("Repair", code, state.detected_errors, JNull,
                                         TRUE, "none", JDict(rec)))
  /\ pc' = "verify"
  /\ UNCHANGED <<code, state, attempt_num, validation_result, raised>>
  /\ UNCHANGED outsideSession

\* validator_agent rejects its inputs before any backend call.
VerifyInvalidInput ==
  /\ pc = "verify"
  /\ LET exc == ValidatorPrecondition(state.original_code, fix_result.fixed_code,
                                      state.detected_errors)
     IN /\ exc # "none"
        /\ calls' = Append(calls, Call("Verify", state.original_code,
                                       state.detected_errors, fix_result.fixed_code,
                                       FALSE, exc, NoResult))
  /\ attempt_num' = attempt_num + 1
  /\ pc' = "fix"
  /\ UNCHANGED <<code, state, fix_result, validation_result, raised>>
  /\ UNCHANGED outsideSession

\* Faulty variant: the exception of validator_agent leaves debug_code.
VerifyCallFails_Uncaught ==
  /\ pc = "verify"
  /\ ValidatorPrecondition(state.original_code, fix_result.fixed_code,
                           state.detected_errors) = "none"
  /\ calls' = Append(calls, Call("Verify", state.original_code, state.detected_errors,
                                 fix_result.fixed_code, TRUE, "ValueError", NoResult))
  /\ raised' = "ValueError"
  /\ pc' = "raised"
  /\ UNCHANGED <<code, state, attempt_num, fix_result, validation_result>>
  /\ UNCHANGED outsideSession

\* safe_llm_json_call raises inside validator_agent.
VerifyCallFails ==
  /\ pc = "verify"
  /\ ValidatorPrecondition(state.original_code, fix_result.fixed_code,
                           state.detected_errors) = "none"
  /\ calls' = Append(calls, Call("Verify", state.original_code, state.detected_errors,
                                 fix_result.fixed_code, TRUE, "ValueError", NoResult))
  /\ attempt_num' = attempt_num + 1
  /\ pc' = "fix"
  /\ UNCHANGED <<code, state, fix_result, validation_result, raised>>
  /\ UNCHANGED outsideSession

\* validator_agent returns a record and the attempt is appended.
VerifyReturns ==
  /\ pc = "verify"
  /\ ValidatorPrecondition(state.original_code, fix_result.fixed_code,
                           state.detected_errors) = "none"
  /\ \E st \in StatusValues, fb \in FeedbackValues :
       LET rec == [status |-> st, feedback |-> fb]
       IN /\ validation_result' = rec
          /\ calls' = Append(calls, Call("Verify", state.original_code,
                                         state.detected_errors, fix_result.fixed_code,
                                         TRUE, "none", JDict(rec)))
          /\ state' = RecordAttempt(state, attempt_num, fix_result, rec)
  /\ pc' = "judge"
  /\ UNCHANGED <<code, attempt_num, fix_result, raised>>
  /\ UNCHANGED outsideSession

\* .lower() on a status that is not text raises AttributeError; caught, the
\* loop continues.
JudgeRaises ==
  /\ pc = "judge"
  /\ validation_result.status.kind # "str"
  /\ attempt_num' = attempt_num + 1
  /\ pc' = "fix"
  /\ UNCHANGED <<code, state, fix_result, validation_result, raised, calls>>
  /\ UNCHANGED outsideSession

\* The verdict is approved: the final code is set.
JudgeApproved ==
  /\ pc = "judge"
  /\ validation_result.status.kind = "str"
  /\ IsApproved(validation_result)
  /\ state' = FixedFinal(state, fix_result)
  /\ pc' = "approved"
  /\ UNCHANGED <<code, attempt_num, fix_result, validation_result, raised, calls>>
  /\ UNCHANGED outsideSession

\* status FIXED; return state.
FixedReturn ==
  /\ pc = "approved"
  /\ state' = FixedStatus(state)
  /\ pc' = "done"
  /\ UNCHANGED <<code, attempt_num, fix_result, validation_result, raised, calls>>
  /\ UNCHANGED outsideSession

\* Faulty variant: after a rejection the same proposal is verified again
\* without a new Repair.
JudgeRejected_VerifiesAgain ==
  /\ pc = "judge"
  /\ validation_result.status.kind = "str"
  /\ ~IsApproved(validation_result)
  /\ attempt_num' = attempt_num + 1
  /\ pc' = IF LoopContinues(attempt_num + 1) THEN "verify" ELSE "fix"
  /\ UNCHANGED <<code, state, fix_result, validation_result, raised, calls>>
  /\ UNCHANGED outsideSession

\* Any other verdict: next iteration.
JudgeRejected ==
  /\ pc = "judge"
  /\ validation_result.status.kind = "str"
  /\ ~IsApproved(validation_result)
  /\ attempt_num' = attempt_num + 1
  /\ pc' = "fix"
  /\ UNCHANGED <<code, state, fix_result, validation_result, raised, calls>>
  /\ UNCHANGED outsideSession

Next ==
  \/ ScanInvalidInput
  \/ ScanCallFails
  \/ ScanReturns
  \/ NoErrors
  \/ NoErrorsReturn
  \/ CountErrorsRaises
  \/ EnterLoop
  \/ LoopExit
  \/ RepairInvalidInput
  \/ RepairCallFails
  \/ RepairReturns
  \/ VerifyInvalidInput
  \/ VerifyCallFails
  \/ VerifyReturns
  \/ JudgeRaises
  \/ JudgeApproved
  \/ FixedReturn
  \/ JudgeRejected

Spec == Init /\ [][Next]_vars

\* ------------------------------------------------------------------------
\* Properties of the session
\* ------------------------------------------------------------------------

TerminalStatuses == {"NO_ERRORS", "FIXED", "FAILED"}

\* The session has returned its state record.
Returned == pc = "done"

\* The Detect invocation of the session, once it is over.
DetectDone == Len(calls) >= 1
DetectCall == calls[1]
DetectReturned == DetectDone /\ DetectCall.exc = "none"
DetectFailed == DetectDone /\ DetectCall.exc # "none"

\* The Repair / Verify invocations so far, in order.
RepairCalls == SelectSeq(calls, LAMBDA c : c.agent = "Repair")
VerifyCalls == SelectSeq(calls, LAMBDA c : c.agent = "Verify")
VerifyReturnedCalls == SelectSeq(calls, LAMBDA c : c.agent = "Verify" /\ c.exc = "none")

\* A verdict that is the text "approved" in any letter case.
ApprovedVerdict(val) == val.status.kind = "str" /\ Lower(val.status.str) = approved

\* Text that is empty or made of whitespace only.
BlankText(c) == \A i \in 1..Len(c) : IsSpace(c[i])

\* C1: in every reachable state of a session the number of recorded fix
\* attempts is at most MAX_FIX_RETRIES, whatever the agents return or raise.
C1_AttemptsWithinBound == Len(state.fix_attempts) <= MAX_FIX_RETRIES

\* A session that recorded as many attempts as the bound allows.
C1_Witness == Len(state.fix_attempts) = MAX_FIX_RETRIES

\* C2: a session that ends FAILED by exhaustion (Detect returned a non-empty
\* error list and no attempt was approved) has exactly MAX_FIX_RETRIES
\* recorded attempts, also when a Repair or Verify invocation failed.
C2_ExhaustedHasBoundAttempts ==
  ( /\ Returned
    /\ state.status = "FAILED"
    /\ DetectReturned
    /\ state.detected_errors.kind = "list"
    /\ Truthy(state.detected_errors) )
  => Len(state.fix_attempts) = MAX_FIX_RETRIES

\* C3: no exception leaves debug_code, whatever the Detect, Repair and Verify
\* invocations return (values that are not lists or not text included).
C3_NeverRaises == raised = "none" /\ pc # "raised"

\* C4: in every returned state the final code is set exactly when the status
\* is FIXED or NO_ERRORS; it is null in every FAILED result, and no returned
\* state is IN_PROGRESS.
C4_FinalCodeIffSuccess ==
  Returned =>
    /\ state.status \in TerminalStatuses
    /\ (state.final_code # JNull) <=> (state.status \in {"FIXED", "NO_ERRORS"})

\* A returned FIXED state with its final code, after an earlier rejection.
C4_Witness ==
  /\ Returned
  /\ state.status = "FIXED"
  /\ state.final_code.kind = "str"
  /\ Len(state.fix_attempts) = 2

C6_NoErrorsReturnsInput ==
  (DetectReturned /\ DetectCall.result.fields.errors = JList(<<>>)) =>
    /\ Len(calls) = 1
    /\ state.fix_attempts = <<>>
    /\ pc \in {"scanned", "no_errors", "done"}
    /\ Returned => /\ state.status = "NO_ERRORS"
                   /\ state.final_code = JStr(code)
                   /\ state.original_code = code

\* NO_ERRORS returned for an input that normalization would change.
C6_Witness ==
  /\ Returned
  /\ state.status = "NO_ERRORS"
  /\ state.detected_errors = JList(<<>>)
  /\ normalize_code(code) # code

\* C7: when Verify returned a Rejected verdict on each of the
\* MAX_FIX_RETRIES attempts, the list has MAX_FIX_RETRIES entries, the i-th
\* entry carries the record the i-th Verify invocation returned, and the
\* session returns FAILED.
C7_AllRejected ==
  ( /\ Len(VerifyReturnedCalls) = MAX_FIX_RETRIES
    /\ \A i \in 1..MAX_FIX_RETRIES :
         VerifyReturnedCalls[i].result.fields.status = JStr(Rejected) )
  => /\ Len(state.fix_attempts) = MAX_FIX_RETRIES
     /\ \A i \in 1..MAX_FIX_RETRIES :
          /\ state.fix_attempts[i].validation = VerifyReturnedCalls[i].result.fields
          /\ state.fix_attempts[i].validation.feedback =
               VerifyReturnedCalls[i].result.fields.feedback
     /\ pc \in {"judge", "fix", "done"}
     /\ Returned => state.status = "FAILED"

\* Three rejections whose feedback texts are not all the same.
C7_Witness ==
  /\ Returned
  /\ state.status = "FAILED"
  /\ Len(state.fix_attempts) = MAX_FIX_RETRIES
  /\ \A i \in 1..MAX_FIX_RETRIES :
       state.fix_attempts[i].validation.status = JStr(Rejected)
  /\ state.fix_attempts[1].validation.feedback # state.fix_attempts[2].validation.feedback

\* C8: a session returns FIXED exactly when a recorded attempt has an
\* approved verdict; that attempt is the last of the list, no earlier one is
\* approved, and the final code is the normalized proposed code of that
\* attempt.  When Detect reports one error and Verify approves the first
\* Repair, the result is FIXED with one attempt.
C8_FixedIffApproved ==
  Returned =>
    LET n == Len(state.fix_attempts)
        att == state.fix_attempts
    IN /\ (state.status = "FIXED") <=>
            (\E i \in 1..n : ApprovedVerdict(att[i].validation))
       /\ state.status = "FIXED" =>
            /\ n >= 1
            /\ ApprovedVerdict(att[n].validation)
            /\ \A i \in 1..(n - 1) : ~ApprovedVerdict(att[i].validation)
            /\ state.final_code = JStr(normalize_code(att[n].fixed_code.str))
       /\ ( /\ Len(calls) >= 3
            /\ DetectReturned
            /\ DetectCall.result.fields.errors = JList(<<SyntaxErrorLine1>>)
            /\ calls[3].agent = "Verify"
            /\ calls[3].exc = "none"
            /\ ApprovedVerdict(calls[3].result.fields) )
          => state.status = "FIXED" /\ n = 1

\* One Syntax error on line 1, the first Repair approved in lower case, and a
\* final code that differs from the proposed code.
C8_Witness ==
  /\ Returned
  /\ state.status = "FIXED"
  /\ state.detected_errors = JList(<<SyntaxErrorLine1>>)
  /\ Len(state.fix_attempts) = 1
  /\ state.fix_attempts[1].validation.status = JStr(approved)
  /\ state.final_code # state.fix_attempts[1].fixed_code

\* C9: for an empty or whitespace-only input no invocation reaches the
\* backend, the only invocation is the Detect that raised ValueError
\* (InvalidInput), and the session returns FAILED.
C9_BlankInputNoBackendCall ==
  BlankText(code) =>
    /\ \A i \in 1..Len(calls) : ~calls[i].llm
    /\ pc \in {"scan", "done"}
    /\ Returned =>
         /\ state.status = "FAILED"
         /\ Len(calls) = 1
         /\ DetectCall.agent = "Detect"
         /\ DetectCall.exc = "ValueError"

\* A whitespace-only (not empty) input whose session has returned.
C9_Witness ==
  /\ Returned
  /\ code # <<>>
  /\ BlankText(code)
  /\ Len(calls) = 1

\* C10: once the Detect invocation has failed the session is over: it has
\* returned FAILED with no attempt, no detected error and no final code, and
\* no other invocation (Detect, Repair or Verify) was made.
C10_ScanFailureTerminal ==
  DetectFailed =>
    /\ Returned
    /\ state.status = "FAILED"
    /\ state.fix_attempts = <<>>
    /\ state.detected_errors = JList(<<>>)
    /\ state.final_code = JNull
    /\ Len(calls) = 1

\* The backend call of Detect failed on a non-blank input.
C10_Witness ==
  /\ Returned
  /\ DetectFailed
  /\ DetectCall.llm
  /\ ~BlankText(code)

\* ------------------------------------------------------------------------
\* Direct calls of the library functions (no session running)
\* ------------------------------------------------------------------------

\* The session variables while no debug_code call is running.
SessionAtRest ==
  /\ code = <<>>
  /\ state = InitialState(<<>>)
  /\ pc = "idle"
  /\ attempt_num = 0
  /\ fix_result = NoResult
  /\ validation_result = NoResult
  /\ raised = "none"
  /\ calls = <<>>

outsideRun == <<sessionVars, gatewayVars, callers>>

\* ------------------------------------------------------------------------
\* extract_json called on a record embedded in prose
\* ------------------------------------------------------------------------

MaxProseLen == 2

\* Prose around the record: unbalanced braces, double quotes, plain text.
ProseAlphabet == {"{", "}", "\"", "a"}

Prose == UNION { [1..n -> ProseAlphabet] : n \in 0..MaxProseLen }

\* Structurally valid records: a number, an escaped quote, braces inside a
\* string value, an escaped backslash, a nested record.
EmbeddedRecords ==
  { <<"{", "\"", "a", "\"", ":", "1", "}">>,
    <<"{", "\"", "a", "\"", ":", "\"", "\\", "\"", "\"", "}">>,
    <<"{", "\"", "a", "\"", ":", "\"", "}", "{", "\"", "}">>,
    <<"{", "\"", "a", "\"", ":", "\"", "\\", "\\", "\"", "}">>,
    <<"{", "\"", "a", "\"", ":", " ", "{", "\"", "b", "\"", ":", "[", "]", "}", "}">> }

\* Prose that holds a balanced pair of braces around text that is no record.
CandidateProse == { <<"{", "a", "}">> }

InitExtract ==
  /\ SessionAtRest
  /\ GatewayAtRest
  /\ RunAtRest
  /\ CallersAtRest

\* extract_json(before + record + after)
ExtractJson ==
  /\ run = NoRun
  /\ \E before \in Prose \cup CandidateProse, record \in EmbeddedRecords, after \in Prose :
       run' = [ fn |-> "extract_json",
                before |-> before,
                record |-> record,
                after |-> after,
                result |-> extract_json(before \o record \o after),
                greedy |-> greedy_extract_json(before \o record \o after) ]
  /\ UNCHANGED outsideRun

NextExtract == ExtractJson

SpecExtract == InitExtract /\ [][NextExtract]_vars

\* C11: for every structurally valid record embedded in prose that may hold
\* unbalanced braces and double quotes, extract_json returns exactly that
\* record.
C11_ExtractorRoundTrip ==
  (run.fn = "extract_json" /\ json_loads(run.record).ok)
  => run.result = Extracted(run.record)

\* The string-literal flag, the escape flag and the brace depth after each
\* character of the text, read left to right from an empty stack.
FlagsAndDepth(text) ==
  LET after[i \in 0..Len(text)] ==
        IF i = 0 THEN [in_string |-> FALSE, escaped |-> FALSE, depth |-> 0]
        ELSE LET before == after[i - 1]
                 ch == text[i]
             IN IF before.escaped THEN [before EXCEPT !.escaped = FALSE]
                ELSE IF ch = "\\" /\ before.in_string THEN [before EXCEPT !.escaped = TRUE]
                ELSE IF ch = "\"" THEN [before EXCEPT !.in_string = ~before.in_string]
                ELSE IF before.in_string THEN before
                ELSE IF ch = "{" THEN [before EXCEPT !.depth = before.depth + 1]
                ELSE IF ch = "}" /\ before.depth > 0
                  THEN [before EXCEPT !.depth = before.depth - 1]
                ELSE before
  IN after

\* The positions where the depth goes from zero to one, and from one to zero,
\* given the flags and depths `after` each character.
ZeroToOne(after) ==
  { i \in (DOMAIN after) \ {0} : after[i - 1].depth = 0 /\ after[i].depth = 1 }
BackToZero(after) ==
  { i \in (DOMAIN after) \ {0} : after[i - 1].depth = 1 /\ after[i].depth = 0 }

Largest(S) == CHOOSE x \in S : \A y \in S : y <= x
Smallest(S) == CHOOSE x \in S : \A y \in S : x <= y

\* The substring from the most recent zero-to-one transition to position e.
CandidateAt(text, opens, e) == SubSeq(text, Largest({ i \in opens : i < e }), e)

\* The positions whose candidate parses as a JSON document.
ParsingCandidates(text, opens, closes) ==
  { e \in closes : json_loads(CandidateAt(text, opens, e)).ok }

\* The candidate of the first position whose candidate parses, if any.
FirstParsing(text, opens, parsing) ==
  IF parsing = {} THEN ExtractRaise
  ELSE Extracted(CandidateAt(text, opens, Smallest(parsing)))

FirstValidCandidate(text, after) ==
  FirstParsing(text, ZeroToOne(after),
               ParsingCandidates(text, ZeroToOne(after), BackToZero(after)))

\* Braces read while the string-literal flag is set leave the depth alone.
DepthKeptInStrings(after) ==
  \A i \in (DOMAIN after) \ {0} :
    after[i - 1].in_string => after[i].depth = after[i - 1].depth

\* The text scanned: the input without its code fences.
ScannedText == StripFences(run.before \o run.record \o run.after)

\* C35: extract_json returns the candidate of the first position, from the
\* left, at which the brace depth is back to zero and the substring from the
\* most recent zero-to-one transition parses; candidates that do not parse
\* are passed over; it raises when there is none.  The depth only moves on
\* braces read while the string-literal flag is not set.
C35_FirstValidCandidate ==
  run.fn = "extract_json" =>
    /\ run.result = FirstValidCandidate(ScannedText, FlagsAndDepth(ScannedText))
    /\ DepthKeptInStrings(FlagsAndDepth(ScannedText))

\* A balanced pair of braces that does not parse comes first and is passed
\* over; the record returned holds braces inside a string value.
C35_Witness ==
  /\ run.fn = "extract_json"
  /\ run.before = <<"{", "a", "}">>
  /\ run.record = <<"{", "\"", "a", "\"", ":", "\"", "}", "{", "\"", "}">>
  /\ run.after = <<"{", "}">>
  /\ run.result = Extracted(run.record)

\* C36: on every text on which the greedy extractor of the superseded client
\* returns a record, extract_json succeeds as well and its result parses to
\* the same record.
C36_BalancedAtLeastGreedy ==
  (run.fn = "extract_json" /\ run.greedy.ok) =>
    /\ run.result.ok
    /\ json_loads(run.result.str).val = run.greedy.val

\* ------------------------------------------------------------------------
\* json.dumps and the stub responder
\* ------------------------------------------------------------------------

DigitSymbol(d) ==
  CASE d = 0 -> "0" [] d = 1 -> "1" [] d = 2 -> "2" [] d = 3 -> "3" [] d = 4 -> "4"
    [] d = 5 -> "5" [] d = 6 -> "6" [] d = 7 -> "7" [] d = 8 -> "8" [] d = 9 -> "9"

RECURSIVE NumSymbols(_)
NumSymbols(n) ==
  IF n < 10 THEN <<DigitSymbol(n)>>
  ELSE Append(NumSymbols(n \div 10), DigitSymbol(n % 10))

\* The characters of a string literal for the symbols of a string.
RECURSIVE EscapeSymbols(_)
EscapeSymbols(syms) ==
  IF syms = <<>> THEN <<>>
  ELSE
    LET c == Head(syms)
        out == CASE c = "\"" -> <<"\\", "\"">>
                 [] c = "\\" -> <<"\\", "\\">>
                 [] c = "\n" -> <<"\\", "n">>
                 [] c = "\t" -> <<"\\", "t">>
                 [] c = "\r" -> <<"\\", "r">>
                 [] OTHER -> <<c>>
    IN out \o EscapeSymbols(Tail(syms))

\* The elements of a finite set of strings, in some fixed order.
RECURSIVE KeyOrder(_)
KeyOrder(ks) ==
  IF ks = {} THEN <<>>
  ELSE LET k == CHOOSE x \in ks : TRUE IN <<k>> \o KeyOrder(ks \ {k})

RECURSIVE json_dumps(_)
RECURSIVE DumpElements(_)
RECURSIVE DumpMembers(_, _)

DumpElements(xs) ==
  IF xs = <<>> THEN <<>>
  ELSE json_dumps(Head(xs))
       \o (IF Tail(xs) = <<>> THEN <<>> ELSE <<",", " ">> \o DumpElements(Tail(xs)))

DumpMembers(f, ks) ==
  IF ks = <<>> THEN <<>>
  ELSE <<"\"", Head(ks), "\"", ":", " ">> \o json_dumps(f[Head(ks)])
       \o (IF Tail(ks) = <<>> THEN <<>> ELSE <<",", " ">> \o DumpMembers(f, Tail(ks)))

\* json.dumps(v) with the default separators (an indent only adds
\* whitespace between the tokens).
json_dumps(v) ==
  CASE v.kind = "null" -> <<"null">>
    [] v.kind = "num" -> NumSymbols(v.num)
    [] v.kind = "str" -> <<"\"">> \o EscapeSymbols(v.str) \o <<"\"">>
    [] v.kind = "list" -> <<"[">> \o DumpElements(v.items) \o <<"]">>
    [] v.kind = "dict" -> <<"{">> \o DumpMembers(v.fields, KeyOrder(DOMAIN v.fields)) \o <<"}">>

\* "marker" in prompt
Contains(text, marker) == \E i \in 1..Len(text) : text[i] = marker

MockScannerAnswer ==
  JDict([errors |-> JList(<<
    JDict([type |-> JStr(<<"Syntax">>),
           line |-> JNum(1),
           description |-> JStr(<<"Missing colon after function definition">>)])>>)])

MockFixerAnswer ==
  JDict([fixed_code |-> JStr(<<"d", "e", "f", " ", "f", "o", "o", "(", ")", ":", "\n",
                              " ", " ", " ", " ", "p", "a", "s", "s">>),
         explanation |-> JStr(<<"Added missing colon after function definition">>)])

MockValidatorAnswer ==
  JDict([status |-> JStr(Approved),
         feedback |-> JStr(<<"The fix correctly resolves the syntax error">>)])

\* llm_client.mock_llm
mock_llm(p) ==
  IF Contains(p, "Scanner") THEN json_dumps(MockScannerAnswer)
  ELSE IF Contains(p, "Fixer") THEN json_dumps(MockFixerAnswer)
  ELSE IF Contains(p, "Validator") THEN json_dumps(MockValidatorAnswer)
  ELSE <<"{", "}">>

\* ------------------------------------------------------------------------
\* The gateway: llm_client.call_llm and what it calls
\* ------------------------------------------------------------------------

MaxCalls == 2

GEMINI_MODEL == "gemini-flash-latest"
OLLAMA_MODEL == "llama3.1:8b"
FALLBACK_MODELS ==
  <<"gemini-pro-latest", "gemini-2.5-flash-lite", "gemini-3-flash-preview",
    "gemini-2.0-flash-lite-preview">>
MAX_API_RETRIES == 2
INITIAL_RETRY_DELAY == 2
RETRY_BACKOFF_MULTIPLIER == 2

\* An exception message is modelled by the set of marker phrases its
\* lower-cased text contains.
QuotaMarkers == {"resource_exhausted", "quota", "429", "rate limit"}
AuthMarkers == {"authentication", "api key", "unauthenticated", "invalid key"}
PermissionMarkers == {"permission", "forbidden", "403"}
ModelMarkers == {"not found", "404", "unknown model"}
NetworkMarkers == {"connection", "timeout", "network"}
ServerMarkers == {"500", "503", "internal", "server error"}

\* Faulty variant: the network markers are looked up before the model
\* markers.
classify_error_NetworkFirst(msg) ==
  IF msg \cap QuotaMarkers # {} THEN "quota"
  ELSE IF msg \cap AuthMarkers # {} THEN "auth"
  ELSE IF msg \cap PermissionMarkers # {} THEN "auth"
  ELSE IF msg \cap NetworkMarkers # {} THEN "network"
  ELSE IF msg \cap ModelMarkers # {} THEN "model"
  ELSE IF msg \cap ServerMarkers # {} THEN "server"
  ELSE "unknown"

classify_error(msg) ==
  IF msg \cap QuotaMarkers # {} THEN "quota"
  ELSE IF msg \cap AuthMarkers # {} THEN "auth"
  ELSE IF msg \cap PermissionMarkers # {} THEN "auth"
  ELSE IF msg \cap ModelMarkers # {} THEN "model"
  ELSE IF msg \cap NetworkMarkers # {} THEN "network"
  ELSE IF msg \cap ServerMarkers # {} THEN "server"
  ELSE "unknown"

\* The exceptions generate_content raises in the model.
ErrorMessages ==
  { {"429"}, {"api key"}, {"forbidden"}, {"not found"}, {"timeout"}, {"503"}, {},
    {"timeout", "404"} }

\* Prompts passed to call_llm, and texts a backend answers with.
GatewayPrompts == { <<"Scanner", " ", "a">>, <<"a">> }
FullAnswer ==
  JDict([errors |-> JList(<<SyntaxErrorLine1>>),
         fixed_code |-> JStr(<<"b">>),
         explanation |-> JStr(<<"e">>),
         status |-> JStr(Rejected),
         feedback |-> JStr(<<"f">>)])

GatewayBackendTexts ==
  { <<" ", "{", "}", "\n">>,
    <<"s", "o", "r", "r", "y">>,
    <<Fence, "json", "\n">> \o json_dumps(FullAnswer) \o <<"\n", Fence>>,
    json_dumps(JDict([fixed_code |-> JStr(<<"b">>)])),
    json_dumps(JDict([errors |-> JList(<<>>), status |-> JStr(Approved)])) }

\* Faulty variant: a quota error is retried like a network error.
ReactToError_QuotaRetries(category, att) ==
  IF category = "model" THEN "fallback"
  ELSE IF category = "auth" THEN "mock"
  ELSE IF category \in {"quota", "network", "server"}
    THEN IF att < MAX_API_RETRIES THEN "retry" ELSE "mock"
  ELSE "mock"

\* Faulty variant: a network or server error is not retried.
ReactToError_NoRetry(category, att) ==
  IF category = "model" THEN "fallback" ELSE "mock"

\* Faulty variant: an unclassified error is raised to the caller.
ReactToError_Reraise(category, att) ==
  IF category = "model" THEN "fallback"
  ELSE IF category \in {"auth", "quota"} THEN "mock"
  ELSE IF category \in {"network", "server"}
    THEN IF att < MAX_API_RETRIES THEN "retry" ELSE "mock"
  ELSE "raise"

\* The except branch of call_gemini: what follows an error of a category
\* on attempt att.
ReactToError(category, att) ==
  IF category = "model" THEN "fallback"
  ELSE IF category \in {"auth", "quota"} THEN "mock"
  ELSE IF category \in {"network", "server"}
    THEN IF att < MAX_API_RETRIES THEN "retry" ELSE "mock"
  ELSE "mock"

\* Faulty variant: the delay is not multiplied.
NextDelay_Constant(delay) == delay

\* retry_delay *= RETRY_BACKOFF_MULTIPLIER
NextDelay(delay) == delay * RETRY_BACKOFF_MULTIPLIER

config == <<LLM_PROVIDER, GOOGLE_API_KEY>>

\* A backend operation on a model, with what the gateway held when it was
\* issued.
BackendOp(op, model, ok) ==
  [ op |-> op, model |-> model, ok |-> ok,
    named |-> current_model_name,
    selected_before |-> selected,
    was_tried |-> model \in tried,
    category |-> "none",
    slept |-> 0 ]

InitialModelName ==
  IF LLM_PROVIDER = "gemini" THEN GEMINI_MODEL
  ELSE IF LLM_PROVIDER = "ollama" THEN OLLAMA_MODEL
  ELSE "mock"

\* The module state as the assignments at the top of llm_client.py leave it,
\* before the import-time initialization.
GatewayLoaded ==
  /\ GEMINI_INITIALIZED = FALSE
  /\ model_instance = "None"
  /\ current_provider = LLM_PROVIDER
  /\ current_model_name = InitialModelName
  /\ gpc = "import"
  /\ attempt = 0
  /\ retry_delay = 0
  /\ fallback_index = 0
  /\ gateway_result = NoAnswer
  /\ ncalls = 0
  /\ prompt = <<>>
  /\ last_op = NoOp
  /\ selected = "None"
  /\ tried = {}
  /\ history = NoHistory

InitGateway ==
  /\ LLM_PROVIDER \in {"gemini", "ollama", "mock"}
  /\ GOOGLE_API_KEY \in BOOLEAN
  /\ GatewayLoaded
  /\ SessionAtRest
  /\ RunAtRest
  /\ CallersAtRest

\* The counts of a call after backend operation op.
Count(h, op) ==
  CASE op.op = "none" -> h
    [] op.op = "ollama" -> [h EXCEPT !.ollama = @ + 1]
    [] op.op = "generate" ->
         [h EXCEPT !.hosted = TRUE,
                   !.generate = @ + 1,
                   !.retryable = IF op.category \in {"network", "server"} THEN @ + 1 ELSE @,
                   !.sleeps = IF op.slept > 0 THEN @ + 1 ELSE @]
    [] OTHER -> [h EXCEPT !.hosted = TRUE]

\* The counts of the call with the operation of this step (if any).
Logged(h) == Count(h, last_op')

\* return mock_llm(prompt)
ReturnMock ==
  /\ gateway_result' = [from |-> "mock", text |-> mock_llm(prompt)]
  /\ gpc' = "idle"

\* initialize_gemini(); ok says whether constructing the client succeeded.
InitializeGemini(ok) ==
  IF ~GOOGLE_API_KEY THEN
    /\ GEMINI_INITIALIZED' = FALSE
    /\ last_op' = NoOp
    /\ UNCHANGED <<model_instance, current_model_name, selected>>
  ELSE IF ok THEN
    /\ model_instance' = GEMINI_MODEL
    /\ GEMINI_INITIALIZED' = TRUE
    /\ current_model_name' = GEMINI_MODEL
    /\ last_op' = BackendOp("init", GEMINI_MODEL, TRUE)
    /\ selected' = IF selected = "None" THEN GEMINI_MODEL ELSE selected
  ELSE
    /\ GEMINI_INITIALIZED' = FALSE
    /\ last_op' = BackendOp("init", GEMINI_MODEL, FALSE)
    /\ UNCHANGED <<model_instance, current_model_name, selected>>

\* if USE_GOOGLE_AI and GOOGLE_API_KEY: initialize_gemini()
ImportModule ==
  /\ gpc = "import"
  /\ IF LLM_PROVIDER = "gemini" /\ GOOGLE_API_KEY
     THEN \E ok \in BOOLEAN : InitializeGemini(ok)
     ELSE /\ last_op' = NoOp
          /\ UNCHANGED <<GEMINI_INITIALIZED, model_instance, current_model_name, selected>>
  /\ gpc' = "idle"
  /\ UNCHANGED <<config, current_provider, attempt, retry_delay, fallback_index,
                 gateway_result, ncalls, prompt, tried, history>>
  /\ UNCHANGED <<sessionVars, run, callers>>

\* call_llm(p) with LLM_PROVIDER == "ollama", up to the request to the
\* server.
call_llm_ollama(p) ==
  /\ gpc = "idle"
  /\ LLM_PROVIDER = "ollama"
  /\ prompt' = p
  /\ ncalls' = ncalls + 1
  /\ gateway_result' = NoAnswer
  /\ current_provider' = "ollama"
  /\ current_model_name' = OLLAMA_MODEL
  /\ gpc' = "ollama"
  /\ last_op' = NoOp
  /\ history' = NoHistory
  /\ UNCHANGED <<config, GEMINI_INITIALIZED, model_instance, attempt, retry_delay,
                 fallback_index, selected, tried>>

\* call_llm(p) with LLM_PROVIDER == "gemini", up to the call of call_gemini.
call_llm_gemini(p) ==
  /\ gpc = "idle"
  /\ LLM_PROVIDER = "gemini"
  /\ prompt' = p
  /\ ncalls' = ncalls + 1
  /\ gateway_result' = NoAnswer
  /\ current_provider' = "gemini"
  /\ IF ~GEMINI_INITIALIZED
     THEN \E ok \in BOOLEAN : InitializeGemini(ok)
     ELSE /\ last_op' = NoOp
          /\ UNCHANGED <<GEMINI_INITIALIZED, model_instance, current_model_name, selected>>
  /\ gpc' = "gemini"
  /\ history' = Logged(NoHistory)
  /\ UNCHANGED <<config, attempt, retry_delay, fallback_index, tried>>

\* call_llm(p) with any other provider.
call_llm_mock(p) ==
  /\ gpc = "idle"
  /\ LLM_PROVIDER \notin {"ollama", "gemini"}
  /\ prompt' = p
  /\ gateway_result' = [from |-> "mock", text |-> mock_llm(p)]
  /\ ncalls' = ncalls + 1
  /\ current_provider' = "mock"
  /\ gpc' = "idle"
  /\ last_op' = NoOp
  /\ history' = NoHistory
  /\ UNCHANGED <<config, GEMINI_INITIALIZED, model_instance, current_model_name,
                 attempt, retry_delay, fallback_index, selected, tried>>

\* llm_client.call_llm, entered by any caller.
call_llm(p) == call_llm_ollama(p) \/ call_llm_gemini(p) \/ call_llm_mock(p)

CallLLM_Ollama ==
  /\ ncalls < MaxCalls
  /\ \E p \in GatewayPrompts : call_llm_ollama(p)
  /\ UNCHANGED <<sessionVars, run, callers>>

\* call_ollama returns the server's answer.
OllamaAnswers ==
  /\ gpc = "ollama"
  /\ \E t \in GatewayBackendTexts :
       gateway_result' = [from |-> "ollama", text |-> Strip(t)]
  /\ gpc' = "idle"
  /\ last_op' = BackendOp("ollama", OLLAMA_MODEL, TRUE)
  /\ history' = Logged(history)
  /\ UNCHANGED <<config, GEMINI_INITIALIZED, model_instance, current_model_name,
                 current_provider, attempt, retry_delay, fallback_index, ncalls,
                 prompt, selected, tried>>
  /\ UNCHANGED <<sessionVars, run, callers>>

\* Faulty variant: a failure of the local server is answered by the stub
\* whether or not a key is configured.
OllamaFails_AlwaysMock ==
  /\ gpc = "ollama"
  /\ ReturnMock
  /\ last_op' = BackendOp("ollama", OLLAMA_MODEL, FALSE)
  /\ history' = Logged(history)
  /\ UNCHANGED <<GEMINI_INITIALIZED, model_instance, current_model_name,
                 current_provider, selected>>
  /\ UNCHANGED <<config, attempt, retry_delay, fallback_index, ncalls, prompt, tried>>
  /\ UNCHANGED <<sessionVars, run, callers>>

\* call_ollama raises: the except branch of call_llm.
OllamaFails ==
  /\ gpc = "ollama"
  /\ IF GOOGLE_API_KEY
     THEN /\ \E ok \in BOOLEAN : InitializeGemini(ok)
          /\ current_provider' = "gemini"
          /\ gpc' = "gemini"
          /\ history' = Logged(Count(history, BackendOp("ollama", OLLAMA_MODEL, FALSE)))
          /\ UNCHANGED gateway_result
     ELSE /\ ReturnMock
          /\ last_op' = BackendOp("ollama", OLLAMA_MODEL, FALSE)
          /\ history' = Logged(history)
          /\ UNCHANGED <<GEMINI_INITIALIZED, model_instance, current_model_name,
                         current_provider, selected>>
  /\ UNCHANGED <<config, attempt, retry_delay, fallback_index, ncalls, prompt, tried>>
  /\ UNCHANGED <<sessionVars, run, callers>>

CallLLM_Gemini ==
  /\ ncalls < MaxCalls
  /\ \E p \in GatewayPrompts : call_llm_gemini(p)
  /\ UNCHANGED <<sessionVars, run, callers>>

CallLLM_Mock ==
  /\ ncalls < MaxCalls
  /\ \E p \in GatewayPrompts : call_llm_mock(p)
  /\ UNCHANGED <<sessionVars, run, callers>>

\* The head of call_gemini: without an initialized client the fallback
\* search starts (or the stub answers); otherwise the retry loop starts.
CallGemini ==
  /\ gpc = "gemini"
  /\ last_op' = NoOp
  /\ IF ~GEMINI_INITIALIZED
     THEN IF GOOGLE_API_KEY
          THEN /\ gpc' = "fallback"
               /\ fallback_index' = 1
               /\ attempt' = 0
               /\ retry_delay' = INITIAL_RETRY_DELAY
               /\ UNCHANGED gateway_result
          ELSE /\ ReturnMock
               /\ UNCHANGED <<fallback_index, attempt, retry_delay>>
     ELSE /\ gpc' = "invoke"
          /\ attempt' = 0
          /\ retry_delay' = INITIAL_RETRY_DELAY
          /\ UNCHANGED <<fallback_index, gateway_result>>
  /\ UNCHANGED <<config, GEMINI_INITIALIZED, model_instance, current_model_name,
                 current_provider, ncalls, prompt, selected, tried, history>>
  /\ UNCHANGED <<sessionVars, run, callers>>

\* Faulty variant: after a switch of model the invocation is repeated
\* whether or not an attempt is left.
FallbackSucceeded_FreshAttempt == gpc' = "invoke" /\ UNCHANGED gateway_result

\* try_fallback_models returned True: the retry loop of call_gemini goes on
\* with its next attempt, if one is left.
FallbackSucceeded ==
  IF attempt <= MAX_API_RETRIES
  THEN gpc' = "invoke" /\ UNCHANGED gateway_result
  ELSE ReturnMock

\* One iteration of the loop of try_fallback_models: the client is built for
\* the next fallback model and probed.
FallbackProbe ==
  /\ gpc = "fallback"
  /\ LET m == FALLBACK_MODELS[fallback_index]
         last == fallback_index = Len(FALLBACK_MODELS)
     IN IF ~GOOGLE_API_KEY THEN
          /\ ReturnMock
          /\ last_op' = NoOp
          /\ UNCHANGED <<GEMINI_INITIALIZED, model_instance, current_model_name,
                         fallback_index, selected, tried>>
        ELSE \E outcome \in {"raises", "probe_fails", "ok"} :
          CASE outcome = "raises" ->
                 /\ last_op' = BackendOp("construct", m, FALSE)
                 /\ tried' = tried \cup {m}
                 /\ IF last THEN ReturnMock /\ UNCHANGED fallback_index
                    ELSE /\ fallback_index' = fallback_index + 1
                         /\ UNCHANGED <<gpc, gateway_result>>
                 /\ UNCHANGED <<GEMINI_INITIALIZED, model_instance,
                                current_model_name, selected>>
            [] outcome = "probe_fails" ->
                 /\ model_instance' = m
                 /\ last_op' = BackendOp("probe", m, FALSE)
                 /\ tried' = tried \cup {m}
                 /\ IF last THEN ReturnMock /\ UNCHANGED fallback_index
                    ELSE /\ fallback_index' = fallback_index + 1
                         /\ UNCHANGED <<gpc, gateway_result>>
                 /\ UNCHANGED <<GEMINI_INITIALIZED, current_model_name, selected>>
            [] outcome = "ok" ->
                 /\ model_instance' = m
                 /\ GEMINI_INITIALIZED' = TRUE
                 /\ current_model_name' = m
                 /\ last_op' = BackendOp("probe", m, TRUE)
                 /\ selected' = IF selected = "None" THEN m ELSE selected
                 /\ FallbackSucceeded
                 /\ UNCHANGED <<fallback_index, tried>>
  /\ history' = Logged(history)
  /\ UNCHANGED <<config, current_provider, attempt, retry_delay, ncalls, prompt>>
  /\ UNCHANGED <<sessionVars, run, callers>>

\* model_instance.generate_content(prompt) answers.
InvokeAnswers ==
  /\ gpc = "invoke"
  /\ \E t \in GatewayBackendTexts :
       gateway_result' = [from |-> "hosted", text |-> Strip(t)]
  /\ gpc' = "idle"
  /\ last_op' = BackendOp("generate", model_instance, TRUE)
  /\ history' = Logged(history)
  /\ UNCHANGED <<config, GEMINI_INITIALIZED, model_instance, current_model_name,
                 current_provider, attempt, retry_delay, fallback_index, ncalls,
                 prompt, selected, tried>>
  /\ UNCHANGED <<sessionVars, run, callers>>

\* Faulty variant: a failure answered by the stub also drops the client, so
\* that later calls start from the fallback search.
InvokeFails_StickyMock ==
  /\ gpc = "invoke"
  /\ \E msg \in ErrorMessages :
       LET category == classify_error(msg)
           reaction == ReactToError(category, attempt)
           op == [BackendOp("generate", model_instance, FALSE) EXCEPT !.category = category]
       IN CASE reaction = "fallback" ->
                 /\ last_op' = op
                 /\ tried' = tried \cup {model_instance}
                 /\ selected' = IF selected = model_instance THEN "None" ELSE selected
                 /\ gpc' = "fallback"
                 /\ fallback_index' = 1
                 /\ attempt' = attempt + 1
                 /\ UNCHANGED <<retry_delay, gateway_result, GEMINI_INITIALIZED,
                                model_instance>>
            [] reaction = "retry" ->
                 /\ last_op' = [op EXCEPT !.slept = retry_delay]
                 /\ retry_delay' = NextDelay(retry_delay)
                 /\ attempt' = attempt + 1
                 /\ UNCHANGED <<gpc, gateway_result, fallback_index, selected, tried,
                                GEMINI_INITIALIZED, model_instance>>
            [] OTHER ->
                 /\ last_op' = op
                 /\ ReturnMock
                 /\ GEMINI_INITIALIZED' = FALSE
                 /\ model_instance' = "None"
                 /\ UNCHANGED <<attempt, retry_delay, fallback_index, selected, tried>>
  /\ history' = Logged(history)
  /\ UNCHANGED <<config, current_model_name, current_provider, ncalls, prompt>>
  /\ UNCHANGED <<sessionVars, run, callers>>

\* model_instance.generate_content(prompt) raises.
InvokeFails ==
  /\ gpc = "invoke"
  /\ \E msg \in ErrorMessages :
       LET category == classify_error(msg)
           reaction == ReactToError(category, attempt)
           op == [BackendOp("generate", model_instance, FALSE) EXCEPT !.category = category]
       IN CASE reaction = "fallback" ->
                 /\ last_op' = op
                 /\ tried' = tried \cup {model_instance}
                 /\ selected' = IF selected = model_instance THEN "None" ELSE selected
                 /\ gpc' = "fallback"
                 /\ fallback_index' = 1
                 /\ attempt' = attempt + 1
                 /\ UNCHANGED <<retry_delay, gateway_result>>
            [] reaction = "retry" ->
                 /\ last_op' = [op EXCEPT !.slept = retry_delay]
                 /\ retry_delay' = NextDelay(retry_delay)
                 /\ attempt' = attempt + 1
                 /\ UNCHANGED <<gpc, gateway_result, fallback_index, selected, tried>>
            [] reaction = "mock" ->
                 /\ last_op' = op
                 /\ ReturnMock
                 /\ UNCHANGED <<attempt, retry_delay, fallback_index, selected, tried>>
            [] reaction = "raise" ->
                 /\ last_op' = op
                 /\ gpc' = "raised"
                 /\ gateway_result' = [from |-> "raised", text |-> <<>>]
                 /\ UNCHANGED <<attempt, retry_delay, fallback_index, selected, tried>>
  /\ history' = Logged(history)
  /\ UNCHANGED <<config, GEMINI_INITIALIZED, model_instance, current_model_name,
                 current_provider, ncalls, prompt>>
  /\ UNCHANGED <<sessionVars, run, callers>>

NextGateway ==
  \/ ImportModule
  \/ CallLLM_Ollama
  \/ OllamaAnswers
  \/ OllamaFails
  \/ CallLLM_Gemini
  \/ CallLLM_Mock
  \/ CallGemini
  \/ FallbackProbe
  \/ InvokeAnswers
  \/ InvokeFails

SpecGateway == InitGateway /\ [][NextGateway]_vars

\* A call_llm call has returned.
GatewayReturned == gpc = "idle" /\ ncalls > 0

\* C12: whatever the backends do (initialization failure, probe failures,
\* invocation errors of every class), call_llm returns response text and
\* never raises to its caller.
C12_GatewayAbsorbsFailures ==
  /\ gpc # "raised"
  /\ GatewayReturned => gateway_result.from \in {"hosted", "ollama", "mock"}

\* A call answered by the stub after an invocation error of no known class.
C12_Witness ==
  /\ GatewayReturned
  /\ gateway_result.from = "mock"
  /\ last_op.op = "generate"
  /\ ~last_op.ok
  /\ last_op.category = "unknown"

\* C18: once a model has initialized (or survived its probe) it stays the
\* selected model: no initialization and no probe is run while a model is
\* selected, and every hosted invocation goes to the selected model, also
\* when the hosted path is entered after a failure of the local backend.
\* (A selection ends when the selected model turns out unavailable.)
C18_SelectedModelReused ==
  /\ last_op.op \in {"init", "construct", "probe"} => last_op.selected_before = "None"
  /\ (last_op.op = "generate" /\ last_op.selected_before # "None")
       => last_op.model = last_op.selected_before

\* C19: whenever a hosted invocation is about to be issued with the backend
\* marked initialized, the current-model field names the model the client
\* is bound to.
C19_CurrentModelIsInvoked ==
  (gpc = "invoke" /\ GEMINI_INITIALIZED) => current_model_name = model_instance

\* C20: the fallback search never constructs or probes a model already tried
\* in this session (one that was unavailable or whose probe failed).
C20_SearchExcludesTried ==
  last_op.op \in {"construct", "probe"} => ~last_op.was_tried

\* The last step was an invocation of the hosted model that failed.
InvocationFailed == last_op.op = "generate" /\ ~last_op.ok

\* C22: an invocation failure classified auth, quota or unknown ends the
\* call at once with the stub's answer: no sleep is taken, no retry and no
\* fallback search follows.
C22_TerminalFailures ==
  (InvocationFailed /\ last_op.category \in {"auth", "quota", "unknown"})
  => /\ gpc = "idle"
     /\ gateway_result = [from |-> "mock", text |-> mock_llm(prompt)]
     /\ last_op.slept = 0

\* A quota error on the second invocation of a call, answered by the stub.
C22_Witness ==
  /\ InvocationFailed
  /\ last_op.category = "quota"
  /\ history.generate = 2
  /\ gateway_result.from = "mock"

\* Every invocation of the current call has failed with a network or server
\* error.
OnlyRetryableFailures ==
  history.generate > 0 /\ history.retryable = history.generate

\* C23: while every invocation of a call fails with a network or server
\* error, the same model is invoked again after a sleep, at most
\* MAX_API_RETRIES times; after MAX_API_RETRIES + 1 failed invocations the
\* stub answers.  An invocation that succeeds returns its response and ends
\* the call.
C23_RetrySameModel ==
  /\ OnlyRetryableFailures =>
       \/ /\ gpc = "invoke"
          /\ history.generate <= MAX_API_RETRIES
          /\ history.sleeps = history.generate
          /\ model_instance = last_op.model
       \/ /\ gpc = "idle"
          /\ gateway_result.from = "mock"
          /\ history.generate = MAX_API_RETRIES + 1
          /\ history.sleeps = MAX_API_RETRIES
  /\ (last_op.op = "generate" /\ last_op.ok) =>
       (gpc = "idle" /\ gateway_result.from = "hosted")

\* The stub answers after MAX_API_RETRIES + 1 invocations that failed with a
\* server or network error.
C23_Witness ==
  /\ OnlyRetryableFailures
  /\ gpc = "idle"
  /\ gateway_result.from = "mock"
  /\ history.generate = MAX_API_RETRIES + 1
  /\ last_op.category = "server"

RECURSIVE Pow(_, _)
Pow(b, e) == IF e = 0 THEN 1 ELSE b * Pow(b, e - 1)

\* The delay before the k-th retry of a call.
BackoffDelay(k) == INITIAL_RETRY_DELAY * Pow(RETRY_BACKOFF_MULTIPLIER, k - 1)

\* C24: the k-th sleep of a call lasts INITIAL_RETRY_DELAY *
\* RETRY_BACKOFF_MULTIPLIER^(k-1) and is followed by an invocation; in
\* every call the delay starts again from INITIAL_RETRY_DELAY; no sleep is
\* taken before the first invocation, by any other backend operation, or
\* before the stub answers.
C24_BackoffDelays ==
  /\ (last_op.op # "none" /\ last_op.slept > 0) =>
       /\ InvocationFailed
       /\ gpc = "invoke"
       /\ last_op.slept = BackoffDelay(history.sleeps)
  /\ gpc \in {"invoke", "fallback"} => retry_delay = BackoffDelay(history.sleeps + 1)
  /\ history.sleeps <= history.generate
  /\ (last_op.op # "none" /\ gpc = "idle" /\ gateway_result.from = "mock") =>
       last_op.slept = 0

\* The second retry of the second call of a session.
C24_Witness ==
  /\ ncalls = 2
  /\ InvocationFailed
  /\ history.sleeps = 2
  /\ last_op.slept = INITIAL_RETRY_DELAY * RETRY_BACKOFF_MULTIPLIER

\* ------------------------------------------------------------------------
\* The agents called directly: prompt rendering, the gateway call and
\* safe_llm_json_call
\* ------------------------------------------------------------------------

\* The templates of prompts.py: the agent's name, its instructions, and the
\* placeholders in their order.
SCANNER_PROMPT ==
  <<"\n", "Scanner", " Agent", "\n", "instructions", "\n", "{{CODE}}", "\n">>
FIXER_PROMPT ==
  <<"\n", "Fixer", " Agent", "\n", "instructions", "\n", "{{CODE}}", "\n",
    "{{ERRORS}}", "\n">>
VALIDATOR_PROMPT ==
  <<"\n", "Validator", " Agent", "\n", "instructions", "\n", "{{ORIGINAL}}", "\n",
    "{{FIXED}}", "\n", "{{ERRORS}}", "\n">>

\* text.replace(placeholder, value)
RECURSIVE Replace(_, _, _)
Replace(text, placeholder, value) ==
  IF text = <<>> THEN <<>>
  ELSE (IF Head(text) = placeholder THEN value ELSE <<Head(text)>>)
       \o Replace(Tail(text), placeholder, value)

ScannerPromptFor(c) == Replace(SCANNER_PROMPT, "{{CODE}}", c)

FixerPromptFor(c, errors) ==
  Replace(Replace(FIXER_PROMPT, "{{CODE}}", c), "{{ERRORS}}", json_dumps(errors))

ValidatorPromptFor(original, fixed, errors) ==
  Replace(Replace(Replace(VALIDATOR_PROMPT, "{{ORIGINAL}}", original),
                  "{{FIXED}}", fixed),
          "{{ERRORS}}", json_dumps(errors))

ScannerKeys == <<"errors">>
FixerKeys == <<"fixed_code", "explanation">>
ValidatorKeys == <<"status", "feedback">>

\* Faulty variant: only the first absent key is reported.
MissingKeys_FirstOnly(required_keys, d) ==
  LET all == SelectSeq(required_keys, LAMBDA k : k \notin DOMAIN d.fields)
  IN IF all = <<>> THEN <<>> ELSE <<Head(all)>>

\* [k for k in required_keys if k not in parsed]
MissingKeys(required_keys, d) ==
  SelectSeq(required_keys, LAMBDA k : k \notin DOMAIN d.fields)

SafeCallRaises(reason, absent) ==
  [exc |-> "ValueError", reason |-> reason, missing |-> absent, parsed |-> JNull]

SafeCallReturns(record) ==
  [exc |-> "none", reason |-> "none", missing |-> <<>>, parsed |-> record]

\* safe_llm_json_call once call_llm has returned raw.
safe_llm_json_call(raw, required_keys) ==
  LET e == extract_json(raw)
  IN IF ~e.ok THEN SafeCallRaises("extract", <<>>)
     ELSE
       LET record == json_loads(e.str).val
           absent == IF required_keys # <<>> THEN MissingKeys(required_keys, record)
                     ELSE <<>>
       IN IF absent # <<>> THEN SafeCallRaises("missing", absent)
          ELSE SafeCallReturns(record)

\* result.get(key, default)
DictGet(d, key, default) == IF key \in DOMAIN d.fields THEN d.fields[key] ELSE default

\* What the agent builds from the parsed record.
AgentResult(fn, parsed) ==
  CASE fn = "scanner_agent" ->
         JDict([errors |-> DictGet(parsed, "errors", JList(<<>>))])
    [] fn = "fixer_agent" ->
         JDict([fixed_code |-> DictGet(parsed, "fixed_code", JStr(<<>>)),
                explanation |-> DictGet(parsed, "explanation", JStr(<<>>))])
    [] fn = "validator_agent" ->
         JDict([status |-> DictGet(parsed, "status", JStr(Rejected)),
                feedback |-> DictGet(parsed, "feedback", JStr(<<"No feedback provided">>))])
    [] OTHER -> parsed

\* Arguments of the direct calls.
AgentCodes ==
  { <<>>, <<" ", "\n">>, <<"a">>, <<"#", " ", "Scanner">>, <<"#", " ", "Fixer">>,
    <<"x", "{{FIXED}}", "{{ERRORS}}">> }
AgentErrors ==
  { JList(<<SyntaxErrorLine1>>), JList(<<EntryWithoutDescription>>), JList(<<>>), JNull }
AgentFixed == { <<"b">>, <<" ", "\n">> }
DirectPrompts == { ScannerPromptFor(<<"a">>), <<"a">> }
DirectKeys == { <<>>, ScannerKeys, FixerKeys }

NoArgs == [code |-> <<>>, errors |-> JNull, fixed |-> <<>>]

\* A call that failed its precondition.
RejectedRun(fn, args, exc) ==
  [ fn |-> fn, args |-> args, stage |-> "done", prompt |-> <<>>,
    required_keys |-> <<>>, raw |-> <<>>, exc |-> exc, reason |-> "precondition",
    missing |-> <<>>, parsed |-> JNull, returned |-> JNull ]

\* A call waiting for call_llm to return.
PendingRun(fn, args, p, keys) ==
  [ fn |-> fn, args |-> args, stage |-> "llm", prompt |-> p,
    required_keys |-> keys, raw |-> <<>>, exc |-> "none", reason |-> "none",
    missing |-> <<>>, parsed |-> JNull, returned |-> JNull ]

\* The stub, or a local backend that answers or fails, without a key for
\* the hosted backend.
InitAgents ==
  /\ LLM_PROVIDER \in {"mock", "ollama"}
  /\ GOOGLE_API_KEY = FALSE
  /\ GatewayLoaded
  /\ SessionAtRest
  /\ RunAtRest
  /\ CallersAtRest

\* scanner_agent(code), up to the return of call_llm.
ScannerAgent ==
  /\ run = NoRun
  /\ gpc = "idle"
  /\ \E c \in AgentCodes :
       LET args == [NoArgs EXCEPT !.code = c]
       IN IF ScannerPrecondition(c) # "none"
          THEN /\ run' = RejectedRun("scanner_agent", args, ScannerPrecondition(c))
               /\ UNCHANGED gatewayVars
          ELSE /\ run' = PendingRun("scanner_agent", args, ScannerPromptFor(c), ScannerKeys)
               /\ call_llm(ScannerPromptFor(c))
  /\ UNCHANGED <<sessionVars, callers>>

\* fixer_agent(code, errors), up to the return of call_llm.
FixerAgent ==
  /\ run = NoRun
  /\ gpc = "idle"
  /\ \E c \in AgentCodes, errors \in AgentErrors :
       LET args == [NoArgs EXCEPT !.code = c, !.errors = errors]
       IN IF FixerPrecondition(c, errors) # "none"
          THEN /\ run' = RejectedRun("fixer_agent", args, FixerPrecondition(c, errors))
               /\ UNCHANGED gatewayVars
          ELSE /\ run' = PendingRun("fixer_agent", args, FixerPromptFor(c, errors), FixerKeys)
               /\ call_llm(FixerPromptFor(c, errors))
  /\ UNCHANGED <<sessionVars, callers>>

\* validator_agent(original, fixed, errors), up to the return of call_llm.
ValidatorAgent ==
  /\ run = NoRun
  /\ gpc = "idle"
  /\ \E c \in AgentCodes, fixed \in AgentFixed, errors \in AgentErrors :
       LET args == [code |-> c, errors |-> errors, fixed |-> fixed]
           pre == ValidatorPrecondition(c, JStr(fixed), errors)
       IN IF pre # "none"
          THEN /\ run' = RejectedRun("validator_agent", args, pre)
               /\ UNCHANGED gatewayVars
          ELSE /\ run' = PendingRun("validator_agent", args,
                                    ValidatorPromptFor(c, fixed, errors), ValidatorKeys)
               /\ call_llm(ValidatorPromptFor(c, fixed, errors))
  /\ UNCHANGED <<sessionVars, callers>>

\* safe_llm_json_call(prompt, required_keys), up to the return of call_llm.
SafeLLMJsonCall ==
  /\ run = NoRun
  /\ gpc = "idle"
  /\ \E p \in DirectPrompts, keys \in DirectKeys :
       /\ run' = PendingRun("safe_llm_json_call", NoArgs, p, keys)
       /\ call_llm(p)
  /\ UNCHANGED <<sessionVars, callers>>

\* The finished call: r is what safe_llm_json_call made of raw.
FinishedRun(pending, raw, r) ==
  [pending EXCEPT !.stage = "done",
                  !.raw = raw,
                  !.exc = r.exc,
                  !.reason = r.reason,
                  !.missing = r.missing,
                  !.parsed = r.parsed,
                  !.returned = IF r.exc = "none"
                               THEN AgentResult(pending.fn, r.parsed)
                               ELSE JNull]

\* call_llm has returned: extraction, parsing, the required keys, and the
\* value the agent returns.
AgentReturns ==
  /\ run.fn # "none"
  /\ run.stage = "llm"
  /\ gpc = "idle"
  /\ run' = FinishedRun(run, gateway_result.text,
                        safe_llm_json_call(gateway_result.text, run.required_keys))
  /\ UNCHANGED <<sessionVars, gatewayVars, callers>>

NextAgents ==
  \/ ImportModule
  \/ ScannerAgent
  \/ FixerAgent
  \/ ValidatorAgent
  \/ SafeLLMJsonCall
  \/ OllamaAnswers
  \/ OllamaFails
  \/ AgentReturns

SpecAgents == InitAgents /\ [][NextAgents]_vars

AgentNames == {"scanner_agent", "fixer_agent", "validator_agent"}

\* A direct call has finished (returned or raised).
RunDone == run.fn # "none" /\ run.stage = "done"

\* A direct call that passed its precondition and got an answer.
RunAnswered == RunDone /\ run.reason # "precondition"

\* The record extract_json and json.loads make of a text that holds one.
RecordOf(raw) == json_loads(extract_json(raw).str).val

\* The required names a record lacks.
AbsentKeys(required_keys, record) ==
  { required_keys[i] : i \in { j \in 1..Len(required_keys) :
                               required_keys[j] \notin DOMAIN record.fields } }

\* The text holds no record, or its record lacks a required name.
ExtractionFailure(raw, required_keys) ==
  IF ~extract_json(raw).ok THEN TRUE
  ELSE AbsentKeys(required_keys, RecordOf(raw)) # {}

\* C13: with the stub as provider, every agent call whose arguments pass the
\* precondition returns without raising: the stub's answer has the shape of
\* the calling agent, and Detect returns a list of errors.
C13_StubAnswersEveryAgent ==
  (RunAnswered /\ run.fn \in AgentNames /\ LLM_PROVIDER = "mock")
  => /\ run.exc = "none"
     /\ run.fn = "scanner_agent" => run.returned.fields.errors.kind = "list"

\* C14 as stated: a backend text without a record, or with a required field
\* missing, is not surfaced to the caller of the agent (the gateway deals
\* with it).
C14_ExtractionFailureNotSurfaced ==
  (RunAnswered /\ ExtractionFailure(run.raw, run.required_keys))
  => run.exc = "none"

\* The arguments the preconditions are about: empty code, an empty or
\* non-list error set, an entry without a kind or a description.
InvalidAgentInput(fn, args) ==
  \/ EmptyCode(args.code)
  \/ fn = "validator_agent" /\ EmptyCode(args.fixed)
  \/ /\ fn \in {"fixer_agent", "validator_agent"}
     /\ \/ BadErrorList(args.errors)
        \/ \E i \in 1..Len(args.errors.items) : ~ValidErrorEntry(args.errors.items[i])

\* C16: an agent called with invalid arguments raises ValueError before the
\* gateway is called.
C16_InvalidInputSpendsNoCall ==
  (run.fn \in AgentNames /\ InvalidAgentInput(run.fn, run.args))
  => /\ ncalls = 0
     /\ RunDone => (run.exc = "ValueError" /\ run.reason = "precondition")

\* C17: for a text that holds a record, the call raises naming exactly the
\* required names the record lacks, and returns the record when it lacks
\* none; the agents ask for {errors}, {fixed_code, explanation} and
\* {status, feedback}.
C17_RequiredFieldValidation ==
  (RunAnswered /\ extract_json(run.raw).ok)
  => /\ AbsentKeys(run.required_keys, RecordOf(run.raw)) = {}
          => (run.exc = "none" /\ run.parsed = RecordOf(run.raw))
     /\ AbsentKeys(run.required_keys, RecordOf(run.raw)) # {}
          => /\ run.exc = "ValueError"
             /\ run.reason = "missing"
             /\ { run.missing[i] : i \in 1..Len(run.missing) }
                  = AbsentKeys(run.required_keys, RecordOf(run.raw))
     /\ run.fn = "scanner_agent" => run.required_keys = <<"errors">>
     /\ run.fn = "fixer_agent" => run.required_keys = <<"fixed_code", "explanation">>
     /\ run.fn = "validator_agent" => run.required_keys = <<"status", "feedback">>

\* Verify raised naming both of its required fields.
C17_Witness ==
  /\ RunAnswered
  /\ run.fn = "validator_agent"
  /\ run.reason = "missing"
  /\ run.missing = <<"status", "feedback">>

\* The leading whitespace shared by the lines of a text that have content.
CommonIndent(s) ==
  LET raw == SplitLines(s)
      content == SelectSeq(raw, LAMBDA l : l # <<>> /\ ~WhitespaceOnly(l))
      indents == [i \in 1..Len(content) |-> LeadingBlanks(content[i])]
  IN IF indents = <<>> THEN <<>> ELSE MarginOf(Tail(indents), Head(indents))

\* C15: the final code of a session returned as FIXED is a fixed point of
\* normalize_code, and its lines share no leading whitespace.
C15_FinalOutputNormalized ==
  (Returned /\ state.status = "FIXED")
  => /\ state.final_code.kind = "str"
     /\ normalize_code(state.final_code.str) = state.final_code.str
     /\ CommonIndent(state.final_code.str) = <<>>

\* A FIXED session whose Repair text was indented: the final code differs
\* from the text Repair returned.
C15_Witness ==
  /\ Returned
  /\ state.status = "FIXED"
  /\ fix_result.fixed_code.kind = "str"
  /\ CommonIndent(fix_result.fixed_code.str) # <<>>
  /\ state.final_code.str # fix_result.fixed_code.str

\* The Repair invocations that returned a record, and the last invocation.
RepairReturnedCalls == SelectSeq(calls, LAMBDA c : c.agent = "Repair" /\ c.exc = "none")
LastCall == calls[Len(calls)]

\* C27: every Repair that returned has its proposed code and rationale in
\* the attempt list from the moment the session leaves Fixing; judged here
\* outside Verifying, so that a list that is only filled after Verify has
\* answered passes as long as no Repair is lost.
C27_RepairRecordedOnSuccess ==
  pc # "verify" =>
    /\ Len(state.fix_attempts) = Len(RepairReturnedCalls)
    /\ \A i \in 1..Len(RepairReturnedCalls) :
         /\ state.fix_attempts[i].fixed_code = RepairReturnedCalls[i].result.fields.fixed_code
         /\ state.fix_attempts[i].explanation = RepairReturnedCalls[i].result.fields.explanation

\* C28: the i-th recorded attempt carries the number i.
C28_AttemptNumbersDense ==
  \A i \in 1..Len(state.fix_attempts) : state.fix_attempts[i].attempt = i

\* A Repair or Verify invocation of the loop ended with an exception, and
\* nothing was invoked since.
LoopInvocationFailed ==
  /\ Len(calls) > 1
  /\ LastCall.agent \in {"Repair", "Verify"}
  /\ LastCall.exc # "none"

\* C29: an exception of fixer_agent or validator_agent inside the loop does
\* not leave debug_code; like a rejection it uses up one iteration, after
\* which the loop goes on or the session returns FAILED once the iterations
\* are used up; a session invokes Repair at most MAX_FIX_RETRIES times.
C29_LoopFailureConsumesAttempt ==
  /\ Len(RepairCalls) <= MAX_FIX_RETRIES
  /\ pc = "fix" => attempt_num = Len(RepairCalls)
  /\ pc \in {"verify", "judge", "approved"} => attempt_num + 1 = Len(RepairCalls)
  /\ LoopInvocationFailed =>
       /\ raised = "none"
       /\ pc \in {"fix", "done"}
       /\ pc = "fix" => state.status = "IN_PROGRESS"
       /\ pc = "done" => /\ state.status = "FAILED"
                         /\ Len(RepairCalls) = MAX_FIX_RETRIES
                         /\ state.final_code = JNull

\* Repair failed, then Verify failed, then Verify failed again: FAILED after
\* MAX_FIX_RETRIES Repair invocations.
C29_Witness ==
  /\ Returned
  /\ LoopInvocationFailed
  /\ LastCall.agent = "Verify"
  /\ calls[2].exc # "none"
  /\ Len(RepairCalls) = MAX_FIX_RETRIES
  /\ state.status = "FAILED"

\* Verify has returned a record and the session has acted on its verdict.
VerdictJudged ==
  /\ Len(calls) > 1
  /\ LastCall.agent = "Verify"
  /\ LastCall.exc = "none"
  /\ pc # "judge"

\* C30: once a verdict is acted on, the session sets the final code and
\* returns FIXED exactly when the verdict is the text "approved" in any letter
\* case; after any other verdict (Rejected, null) the iteration is used up,
\* nothing is raised, and the session goes on to the next attempt or returns
\* FAILED.
C30_VerdictIgnoresCase ==
  VerdictJudged =>
    IF ApprovedVerdict(validation_result)
    THEN /\ pc \in {"approved", "done"}
         /\ state.final_code # JNull
         /\ pc = "done" => state.status = "FIXED"
    ELSE /\ pc \in {"fix", "done"}
         /\ raised = "none"
         /\ attempt_num = Len(RepairCalls)
         /\ state.final_code = JNull
         /\ pc = "fix" => state.status = "IN_PROGRESS"
         /\ pc = "done" => state.status = "FAILED" /\ attempt_num = MAX_FIX_RETRIES

\* A verdict in capitals approves the second attempt after a rejection.
C30_Witness ==
  /\ Returned
  /\ VerdictJudged
  /\ validation_result.status = JStr(APPROVED)
  /\ state.status = "FIXED"
  /\ Len(state.fix_attempts) = 2
  /\ state.fix_attempts[1].validation.status = JStr(Rejected)

\* The template with every placeholder of its own replaced, in one pass, by
\* the text given for it; the texts put in are not looked at again.
RECURSIVE Render(_, _)
Render(template, texts) ==
  IF template = <<>> THEN <<>>
  ELSE (IF Head(template) \in DOMAIN texts THEN texts[Head(template)]
        ELSE <<Head(template)>>)
       \o Render(Tail(template), texts)

\* text occurs in prompt, as it is.
Verbatim(text, prompt_text) ==
  \E i \in 1..(Len(prompt_text) - Len(text) + 1) :
    SubSeq(prompt_text, i, i + Len(text) - 1) = text

\* C34: the prompt fixer_agent and validator_agent send is their template
\* with each placeholder replaced by its own input and nothing else changed,
\* so the caller's code stands in it verbatim, whatever the code contains.
C34_LiteralSubstitution ==
  /\ (run.fn = "fixer_agent" /\ run.reason # "precondition") =>
       /\ run.prompt = Render(FIXER_PROMPT,
                              [x \in {"{{CODE}}"} |-> run.args.code]
                                @@ [x \in {"{{ERRORS}}"} |-> json_dumps(run.args.errors)])
       /\ Verbatim(run.args.code, run.prompt)
  /\ (run.fn = "validator_agent" /\ run.reason # "precondition") =>
       /\ run.prompt = Render(VALIDATOR_PROMPT,
                              [x \in {"{{ORIGINAL}}"} |-> run.args.code]
                                @@ [x \in {"{{FIXED}}"} |-> run.args.fixed]
                                @@ [x \in {"{{ERRORS}}"} |-> json_dumps(run.args.errors)])
       /\ Verbatim(run.args.code, run.prompt)
       /\ Verbatim(run.args.fixed, run.prompt)

\* The invocations of the loop.
LoopCalls == SelectSeq(calls, LAMBDA c : c.agent \in {"Repair", "Verify"})

\* C31: every Repair and every Verify of a session is given the code the
\* session was started with and the error list Detect returned, both of
\* which the session record still holds unchanged; a Repair is given no
\* earlier proposal or feedback, a Verify is given the proposal of the Repair
\* just before it.
C31_SameInputsEveryAttempt ==
  /\ state.original_code = code
  /\ Len(LoopCalls) > 0 =>
       /\ DetectReturned
       /\ state.detected_errors = DetectCall.result.fields.errors
  /\ \A i \in 1..Len(calls) :
       calls[i].agent \in {"Repair", "Verify"} =>
         /\ calls[i].code = code
         /\ calls[i].errors = DetectCall.result.fields.errors
         /\ calls[i].agent = "Repair" => calls[i].fixed = JNull
         /\ calls[i].agent = "Verify" =>
              calls[i].fixed = calls[i - 1].result.fields.fixed_code

\* Two attempts whose proposals differ, the first rejected with feedback.
C31_Witness ==
  /\ Len(RepairReturnedCalls) = 2
  /\ Len(VerifyReturnedCalls) = 2
  /\ VerifyCalls[1].fixed # VerifyCalls[2].fixed
  /\ RepairCalls[2].code = code
  /\ RepairCalls[2].errors = JList(<<SyntaxErrorLine1>>)

\* C32: a step of the session leaves the attempt list as it is or appends
\* one entry at its end; the entries recorded before stay as they are.
C32_AttemptsAppendOnly ==
  [][ /\ Len(state'.fix_attempts) \in {Len(state.fix_attempts), Len(state.fix_attempts) + 1}
      /\ SubSeq(state'.fix_attempts, 1, Len(state.fix_attempts)) = state.fix_attempts
    ]_vars

\* A full list whose first and last entries differ in code and verdict.
C32_Witness ==
  /\ Len(state.fix_attempts) = MAX_FIX_RETRIES
  /\ state.fix_attempts[1].fixed_code # state.fix_attempts[MAX_FIX_RETRIES].fixed_code
  /\ state.fix_attempts[1].validation # state.fix_attempts[MAX_FIX_RETRIES].validation

\* The order of the invocations so far: Detect first and only once; a Verify
\* right after a Repair that returned, on the code that Repair proposed; a
\* Repair after Detect, after a failed Repair or after a Verify.
InvocationOrder ==
  \A i \in 1..Len(calls) :
    /\ (calls[i].agent = "Detect") <=> (i = 1)
    /\ calls[i].agent \in {"Detect", "Repair", "Verify"}
    /\ calls[i].agent = "Verify" =>
         /\ calls[i - 1].agent = "Repair"
         /\ calls[i - 1].exc = "none"
         /\ calls[i].fixed = calls[i - 1].result.fields.fixed_code
    /\ (calls[i].agent = "Repair" /\ i > 2) =>
         \/ calls[i - 1].agent = "Verify"
         \/ calls[i - 1].agent = "Repair" /\ calls[i - 1].exc # "none"

\* C33: the invocations of a session come one at a time, Detect first and
\* then Repair/Verify pairs; a step starts at most one invocation, and none
\* once the status is no longer IN_PROGRESS or an exception has left the
\* session.
C33_SequentialInvocations ==
  /\ []InvocationOrder
  /\ [][ /\ Len(calls') \in {Len(calls), Len(calls) + 1}
         /\ SubSeq(calls', 1, Len(calls)) = calls
         /\ (state.status # "IN_PROGRESS" \/ raised # "none") => calls' = calls
       ]_vars

\* Detect, a failed Repair, then two Repair/Verify pairs, the second
\* approved.
C33_Witness ==
  /\ Returned
  /\ state.status = "FIXED"
  /\ Len(calls) = 6
  /\ calls[2].agent = "Repair" /\ calls[2].exc # "none"
  /\ calls[4].agent = "Verify" /\ calls[6].agent = "Verify"

\* The session when every agent invocation returns or fails and the code
\* between the invocations runs on: no step that can be taken is put off for
\* ever.
SpecLive == Init /\ [][Next]_vars /\ WF_vars(Next)

\* C37: every session reaches a terminal status: it returns its record with
\* status NO_ERRORS, FIXED or FAILED.
C37_SessionTerminates == <>(Returned /\ state.status \in TerminalStatuses)

\* ------------------------------------------------------------------------
\* Several callers inside call_llm at once (provider "gemini"): the module
\* variables are shared, the locals of call_gemini and try_fallback_models
\* are per caller, and a caller can be overtaken wherever it waits for the
\* backend.  What the callers' backend operations have met is recorded:
\*   reselects  a client was built or a probe sent while a model was selected
\*   contested  an invocation went to a model that another caller was
\*              probing, or whose probe was the last to fail
\*   failed     the model whose probe failed last
\* ------------------------------------------------------------------------

InitConcurrent ==
  /\ LLM_PROVIDER = "gemini"
  /\ GOOGLE_API_KEY = TRUE
  /\ GatewayLoaded
  /\ SessionAtRest
  /\ RunAtRest
  /\ CallersAtRest

\* What the callers leave alone: the locals and the history of the
\* single-caller gateway.
outsideCallers ==
  <<config, current_provider, gpc, attempt, retry_delay, fallback_index,
    gateway_result, prompt, tried, history, sessionVars, run>>

\* Another caller is waiting for the probe of model m.
ProbedByOther(c, m) ==
  \E d \in Callers \ {c} :
    /\ callers.frame[d].pc = "probing"
    /\ FALLBACK_MODELS[callers.frame[d].fallback_index] = m

\* The caller's frame after return mock_llm(prompt) / return response.text.
Returned_Frame(f) == [f EXCEPT !.pc = "idle"]

\* call_llm entered by caller c, up to the call of call_gemini.
ConcCallLLM(c) ==
  /\ gpc = "idle"
  /\ callers.frame[c].pc = "idle"
  /\ ncalls < MaxCalls
  /\ ncalls' = ncalls + 1
  /\ IF ~GEMINI_INITIALIZED
     THEN \E ok \in BOOLEAN : InitializeGemini(ok)
     ELSE /\ last_op' = NoOp
          /\ UNCHANGED <<GEMINI_INITIALIZED, model_instance, current_model_name, selected>>
  /\ callers' = [callers EXCEPT
       !.frame[c] = [IdleFrame EXCEPT !.pc = "gemini"],
       !.reselects = @ \/ (~GEMINI_INITIALIZED /\ selected # "None")]
  /\ UNCHANGED outsideCallers

\* The head of call_gemini for caller c.
ConcCallGemini(c) ==
  /\ callers.frame[c].pc = "gemini"
  /\ last_op' = NoOp
  /\ callers' = [callers EXCEPT !.frame[c] =
       IF ~GEMINI_INITIALIZED
       THEN [@ EXCEPT !.pc = "fallback", !.fallback_index = 1, !.attempt = 0]
       ELSE [@ EXCEPT !.pc = "invoke", !.attempt = 0]]
  /\ UNCHANGED <<GEMINI_INITIALIZED, model_instance, current_model_name, selected, ncalls>>
  /\ UNCHANGED outsideCallers

\* The frame after a fallback model failed: the next model, or the stub.
AfterFailedModel(f) ==
  IF f.fallback_index = Len(FALLBACK_MODELS) THEN Returned_Frame(f)
  ELSE [f EXCEPT !.pc = "fallback", !.fallback_index = f.fallback_index + 1]

\* try_fallback_models, caller c: the client of the next fallback model is
\* built and stored in model_instance, and the probe is sent.
ConcConstruct(c) ==
  /\ callers.frame[c].pc = "fallback"
  /\ last_op' = NoOp
  /\ \E ok \in BOOLEAN :
       IF ok
       THEN /\ model_instance' = FALLBACK_MODELS[callers.frame[c].fallback_index]
            /\ callers' = [callers EXCEPT !.frame[c].pc = "probing",
                                          !.reselects = @ \/ selected # "None"]
       ELSE /\ callers' = [callers EXCEPT !.frame[c] = AfterFailedModel(@),
                                          !.reselects = @ \/ selected # "None"]
            /\ UNCHANGED model_instance
  /\ UNCHANGED <<GEMINI_INITIALIZED, current_model_name, selected, ncalls>>
  /\ UNCHANGED outsideCallers

\* try_fallback_models, caller c: the probe comes back.
ConcProbeReturns(c) ==
  /\ callers.frame[c].pc = "probing"
  /\ last_op' = NoOp
  /\ LET m == FALLBACK_MODELS[callers.frame[c].fallback_index]
     IN \E ok \in BOOLEAN :
          IF ok
          THEN /\ GEMINI_INITIALIZED' = TRUE
               /\ current_model_name' = m
               /\ selected' = IF selected = "None" THEN m ELSE selected
               /\ callers' = [callers EXCEPT !.frame[c] =
                    IF @.attempt <= MAX_API_RETRIES THEN [@ EXCEPT !.pc = "invoke"]
                    ELSE Returned_Frame(@)]
          ELSE /\ callers' = [callers EXCEPT !.frame[c] = AfterFailedModel(@),
                                             !.failed = m]
               /\ UNCHANGED <<GEMINI_INITIALIZED, current_model_name, selected>>
  /\ UNCHANGED <<model_instance, ncalls>>
  /\ UNCHANGED outsideCallers

\* Caller c's invocation goes to the model the module holds at that moment;
\* f is the caller's frame after it.
Issued(c, f) ==
  [callers EXCEPT !.frame[c] = f,
                  !.contested = \/ @
                                \/ ProbedByOther(c, model_instance)
                                \/ callers.failed = model_instance]

\* call_gemini, caller c: model_instance.generate_content(prompt) answers.
ConcInvokeAnswers(c) ==
  /\ callers.frame[c].pc = "invoke"
  /\ last_op' = NoOp
  /\ callers' = Issued(c, Returned_Frame(callers.frame[c]))
  /\ UNCHANGED <<GEMINI_INITIALIZED, model_instance, current_model_name, selected, ncalls>>
  /\ UNCHANGED outsideCallers

\* call_gemini, caller c: model_instance.generate_content(prompt) raises.
ConcInvokeFails(c) ==
  /\ callers.frame[c].pc = "invoke"
  /\ last_op' = NoOp
  /\ \E msg \in ErrorMessages :
       LET f == callers.frame[c]
           reaction == ReactToError(classify_error(msg), f.attempt)
       IN CASE reaction = "fallback" ->
                 /\ selected' = IF selected = model_instance THEN "None" ELSE selected
                 /\ callers' = Issued(c, [f EXCEPT !.pc = "fallback",
                                                   !.fallback_index = 1,
                                                   !.attempt = @ + 1])
            [] reaction = "retry" ->
                 /\ callers' = Issued(c, [f EXCEPT !.attempt = @ + 1])
                 /\ UNCHANGED selected
            [] OTHER ->
                 /\ callers' = Issued(c, Returned_Frame(f))
                 /\ UNCHANGED selected
  /\ UNCHANGED <<GEMINI_INITIALIZED, model_instance, current_model_name, ncalls>>
  /\ UNCHANGED outsideCallers

NextConcurrent ==
  \/ ImportModule
  \/ \E c \in Callers : ConcCallLLM(c)
  \/ \E c \in Callers : ConcCallGemini(c)
  \/ \E c \in Callers : ConcConstruct(c)
  \/ \E c \in Callers : ConcProbeReturns(c)
  \/ \E c \in Callers : ConcInvokeAnswers(c)
  \/ \E c \in Callers : ConcInvokeFails(c)

SpecConcurrent == InitConcurrent /\ [][NextConcurrent]_vars

\* C21: with several callers inside the gateway, the selection is made once
\* (no caller builds a client or sends a probe while a model is selected),
\* and no caller's invocation goes to a model that another caller is
\* probing or whose probe failed.
C21_SelectionAtomic == ~callers.reselects /\ ~callers.contested

\* C39: a call invokes the selected model at most MAX_API_RETRIES + 1 times,
\* whatever the failures are: the loop variable counts the invocations made,
\* also across a switch to a fallback model, and a switch that succeeds
\* after the last attempt is followed by the stub's answer, not by another
\* invocation.
C39_InvocationsPerCallBounded ==
  /\ history.generate <= MAX_API_RETRIES + 1
  /\ gpc = "invoke" => (attempt = history.generate /\ attempt <= MAX_API_RETRIES)
  /\ (gpc = "fallback" /\ history.generate > 0) => attempt = history.generate
  /\ (last_op.op = "probe" /\ last_op.ok /\ history.generate = MAX_API_RETRIES + 1) =>
       /\ gpc = "idle"
       /\ gateway_result = [from |-> "mock", text |-> mock_llm(prompt)]

\* A network failure, a server failure and a model failure, then a fallback
\* model that answers its probe: the stub answers the call.
C39_Witness ==
  /\ last_op.op = "probe"
  /\ last_op.ok
  /\ history.generate = MAX_API_RETRIES + 1
  /\ history.retryable = MAX_API_RETRIES
  /\ gateway_result.from = "mock"

\* The module state a call works on.
ClientState == <<GEMINI_INITIALIZED, model_instance, current_model_name, current_provider>>

\* The stub answered after an invocation failure of a class that is not
\* answered by a switch of model.
DegradedAfterFailure ==
  /\ InvocationFailed
  /\ last_op.category \in {"auth", "quota", "network", "server", "unknown"}
  /\ gpc = "idle"
  /\ gateway_result.from = "mock"

SpecGatewayLive ==
  /\ InitGateway
  /\ [][NextGateway]_vars
  /\ WF_vars(ImportModule)
  /\ WF_vars(CallGemini)
  /\ WF_vars(OllamaAnswers \/ OllamaFails)

\* A call waits for a backend.
AwaitingBackend == gpc \in {"ollama", "fallback", "invoke"}

\* C38: no backend operation is waited for without end: a call that waits
\* for the local server or for the hosted backend goes on.
C38_BackendCallsBounded == AwaitingBackend ~> ~AwaitingBackend

\* A call routed to the local server, past the request to it.
LocalCallRequested == LLM_PROVIDER = "ollama" /\ ncalls > 0 /\ gpc # "ollama"

\* The request to the local server of the current call failed.
LocalCallFailed == LocalCallRequested /\ gateway_result.from # "ollama"

\* C26: with the local provider configured, a call asks the local server
\* exactly once. When the server answers, that answer is returned and the call
\* touches neither the hosted backend nor the stub. When the request fails,
\* the call goes on to the hosted path if a key is configured, and is
\* answered by the stub, without any hosted operation, if none is.
C26_LocalProviderRouting ==
  /\ LLM_PROVIDER = "ollama" => history.ollama <= 1
  /\ (LLM_PROVIDER = "ollama" /\ gpc = "ollama") => (history = NoHistory /\ gateway_result = NoAnswer)
  /\ LocalCallRequested => history.ollama = 1
  /\ (LocalCallRequested /\ ~LocalCallFailed) =>
       /\ gpc = "idle"
       /\ last_op = [BackendOp("ollama", OLLAMA_MODEL, TRUE) EXCEPT
                       !.named = last_op.named,
                       !.selected_before = last_op.selected_before,
                       !.was_tried = last_op.was_tried]
       /\ ~history.hosted
       /\ history.generate = 0
  /\ (LocalCallFailed /\ GOOGLE_API_KEY) =>
       /\ history.hosted
       /\ current_provider = "gemini"
       /\ gpc \in {"gemini", "fallback", "invoke", "idle"}
       /\ gpc = "idle" => gateway_result.from \in {"hosted", "mock"}
  /\ (LocalCallFailed /\ ~GOOGLE_API_KEY) =>
       /\ gpc = "idle"
       /\ gateway_result = [from |-> "mock", text |-> mock_llm(prompt)]
       /\ ~history.hosted
       /\ current_provider = "ollama"

\* The local server failed, a key is configured, and the hosted backend
\* answered the call.
C26_Witness ==
  /\ LocalCallFailed
  /\ GOOGLE_API_KEY
  /\ gpc = "idle"
  /\ gateway_result.from = "hosted"
  /\ history.ollama = 1
  /\ history.generate = 1

\* ------------------------------------------------------------------------
\* classify_error on the text of an exception
\* ------------------------------------------------------------------------

\* The characters of a string, as a text.
Chars(str) == [i \in 1..Len(str) |-> SubSeq(str, i, i)]

\* marker in text
Occurs(marker, text) ==
  \E i \in 1..(Len(text) - Len(marker) + 1) :
    SubSeq(text, i, i + Len(marker) - 1) = marker

AllMarkers ==
  QuotaMarkers \cup AuthMarkers \cup PermissionMarkers \cup ModelMarkers
    \cup NetworkMarkers \cup ServerMarkers

\* Faulty variant: the message is searched as it is written.
error_msg_CaseSensitive(text) == { m \in AllMarkers : Occurs(Chars(m), text) }

\* error_msg = str(error).lower(), seen through the tests `x in error_msg`:
\* the markers that occur in it.
error_msg(text) == { m \in AllMarkers : Occurs(Chars(m), Lower(text)) }

\* Pieces of exception messages, in the spellings providers use.
MessagePieces ==
  { "Quota exceeded", "429", "RATE", "Limit", "API key not valid", "PERMISSION_DENIED",
    "Not", "Found", "unknown Model", "Connection reset", "TIMEOUT", "503",
    "Internal", "oops" }

\* Messages of one piece, or of two pieces with a blank between them.
ErrorTexts ==
  { Chars(a) : a \in MessagePieces }
    \cup { Chars(a) \o <<" ">> \o Chars(b) : a, b \in MessagePieces }

InitClassify ==
  /\ SessionAtRest
  /\ GatewayAtRest
  /\ RunAtRest
  /\ CallersAtRest

\* classify_error(e) for an exception whose text is given.
ClassifyError ==
  /\ run = NoRun
  /\ \E text \in ErrorTexts :
       run' = [ fn |-> "classify_error",
                text |-> text,
                result |-> classify_error(error_msg(text)) ]
  /\ UNCHANGED outsideRun

NextClassify == ClassifyError

SpecClassify == InitClassify /\ [][NextClassify]_vars

\* The classes in the order of their priority, with their vocabulary.
ClassPriority == <<"quota", "auth", "model", "network", "server">>

Vocabulary(class) ==
  CASE class = "quota" -> QuotaMarkers
    [] class = "auth" -> AuthMarkers \cup PermissionMarkers
    [] class = "model" -> ModelMarkers
    [] class = "network" -> NetworkMarkers
    [] class = "server" -> ServerMarkers

\* A marker of the class occurs in the message, whatever the case of its
\* letters.
ClassPresent(class, text) ==
  \E m \in Vocabulary(class) : Occurs(Chars(m), Lower(text))

\* C25: classify_error gives every message exactly one tag: that of the
\* first class, in the order quota, auth, model, network, server, that has a
\* marker in the message read without regard to case, and unknown when no
\* class has one.
C25_ClassifyByPriority ==
  run.fn = "classify_error" =>
    /\ run.result \in {"quota", "auth", "model", "network", "server", "unknown"}
    /\ \A k \in 1..Len(ClassPriority) :
         run.result = ClassPriority[k]
           <=> /\ ClassPresent(ClassPriority[k], run.text)
               /\ \A j \in 1..(k - 1) : ~ClassPresent(ClassPriority[j], run.text)
    /\ run.result = "unknown"
         <=> \A k \in 1..Len(ClassPriority) : ~ClassPresent(ClassPriority[k], run.text)

\* A message that names a network marker in capitals before a model marker
\* in mixed case: classified model.
C25_Witness ==
  /\ run.fn = "classify_error"
  /\ run.text = Chars("TIMEOUT") \o <<" ">> \o Chars("unknown Model")
  /\ run.result = "model"

====
